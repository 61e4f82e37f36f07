-------------------------- MODULE TofinoAudit_proofs --------------------------
(***************************************************************************)
(* Proofs about TofinoEgress and TofinoAudit.  The registers keep their    *)
(* limit whatever wraps around.  A register never runs ahead of the        *)
(* continuously drained queue, and that queue is over the threshold at     *)
(* every port that marked at this instant, except at the ports whose last  *)
(* drains did not fit a word.  The key is that the wrapped difference of   *)
(* two readings of the clock is the time between them, however often the   *)
(* clock itself has wrapped around, as long as the drain of that time fits.*)
(***************************************************************************)
EXTENDS TofinoAudit, TLAPS

\* What the switch computes from two words of the clock is the time that has passed,
\* whenever its drain fits a word.
ClockInv == \A p \in Ports : Fits(p) => Interval(p) = idle[p]

\* The inductive invariant of the audited specification.
AuditInv ==
  /\ TypeOK /\ fluid \in [Ports -> Nat] /\ idle \in [Ports -> Nat]
  /\ ClockInv /\ NeverAhead /\ NoFalseMark

-----------------------------------------------------------------------------
(* Words *)

LEMMA Constants ==
  /\ Word \in Nat /\ Word > 0 /\ PqlenWord \in Nat /\ PqlenWord > 0
  /\ PTHR \in Nat /\ kPTHR \in Nat /\ PTHR <= kPTHR /\ kPTHR < Word
  /\ Rate \in Nat /\ Rate > 0 /\ PTHR > 0
  BY WordAssumption DEF Rate

\* A word is what is left over.
LEMMA WordOf ==
  ASSUME NEW w \in Nat, w > 0, NEW x \in Int
  PROVE  /\ x % w \in 0 .. w - 1
         /\ x \div w \in Int
         /\ x = w * (x \div w) + (x % w)
  BY Z3

\* Natural numbers are never less than their words.
LEMMA WordAtMost ==
  ASSUME NEW w \in Nat, w > 0, NEW x \in Nat
  PROVE  x % w <= x
<1> DEFINE q == x \div w
<1>1. q \in Int /\ x = w * q + (x % w) /\ x % w \in 0 .. w - 1
  BY WordOf
<1>2. CASE q >= 0
  <2>1. w * q >= 0
    BY <1>1, <1>2, Z3
  <2> QED
    BY <1>1, <2>1
<1>3. CASE q <= -1
  <2>1. w * q <= - w
    BY <1>1, <1>3, Z3
  <2> QED
    BY <1>1, <2>1
<1> QED
  BY <1>1, <1>2, <1>3

\* A number that fits is its own word.
LEMMA WordFits ==
  ASSUME NEW w \in Nat, w > 0, NEW x \in 0 .. w - 1
  PROVE  x % w = x
<1> DEFINE q == x \div w
<1>1. q \in Int /\ x = w * q + (x % w) /\ x % w \in 0 .. w - 1
  BY WordOf
<1>2. CASE q >= 1
  <2>1. w * q >= w
    BY <1>1, <1>2, Z3
  <2> QED
    BY <1>1, <2>1
<1>3. CASE q <= -1
  <2>1. w * q <= - w
    BY <1>1, <1>3, Z3
  <2> QED
    BY <1>1, <2>1
<1>4. CASE q = 0
  BY <1>1, <1>4
<1> QED
  BY <1>1, <1>2, <1>3, <1>4

\* A negative number wraps around once.
LEMMA WordWraps ==
  ASSUME NEW w \in Nat, w > 0, NEW x \in -w .. -1
  PROVE  x % w = x + w
<1> DEFINE q == x \div w
<1>1. q \in Int /\ x = w * q + (x % w) /\ x % w \in 0 .. w - 1
  BY WordOf
<1>2. CASE q >= 0
  <2>1. w * q >= 0
    BY <1>1, <1>2, Z3
  <2> QED
    BY <1>1, <2>1
<1>3. CASE q <= -2
  <2>1. w * q <= -2 * w
    BY <1>1, <1>3, Z3
  <2> QED
    BY <1>1, <2>1
<1>4. CASE q = -1
  BY <1>1, <1>4
<1> QED
  BY <1>1, <1>2, <1>3, <1>4

\* The difference of two readings of the clock.
LEMMA Difference ==
  ASSUME NEW t \in 0 .. Word - 1, NEW s \in 0 .. Word - 1
  PROVE  (t - s) % Word = IF s <= t THEN t - s ELSE t - s + Word
<1>1. Word \in Nat /\ Word > 0
  BY Constants
<1>2. CASE s <= t
  <2>1. t - s \in 0 .. Word - 1
    BY <1>1, <1>2
  <2> QED
    BY <2>1, <1>1, <1>2, WordFits
<1>3. CASE ~(s <= t)
  <2>1. t - s \in -Word .. -1
    BY <1>1, <1>3
  <2> QED
    BY <2>1, <1>1, <1>3, WordWraps
<1> QED
  BY <1>2, <1>3

\* One unit of time later it is one more, unless that no longer fits.
LEMMA DifferenceGrows ==
  ASSUME NEW t \in 0 .. Word - 1, NEW s \in 0 .. Word - 1, ((t - s) % Word) + 1 < Word
  PROVE  (((t + 1) % Word) - s) % Word = ((t - s) % Word) + 1
<1>1. Word \in Nat /\ Word > 0
  BY Constants
<1>2. (t - s) % Word = IF s <= t THEN t - s ELSE t - s + Word
  BY Difference
<1>3. CASE t + 1 < Word
  <2>1. t + 1 \in 0 .. Word - 1
    BY <1>1, <1>3
  <2>2. (t + 1) % Word = t + 1
    BY <2>1, <1>1, WordFits
  <2>3. (t + 1 - s) % Word = IF s <= t + 1 THEN t + 1 - s ELSE t + 1 - s + Word
    BY <2>1, Difference
  <2> QED
    BY <1>1, <1>2, <2>2, <2>3
<1>4. CASE t + 1 = Word
  <2>1. (t + 1) % Word = 0
    <3>1. Word % Word = 0
      <4>1. PICK w : w = Word
        OBVIOUS
      <4>2. w \in Nat /\ w > 0
        BY <1>1, <4>1
      <4>3. w % w = 0
        BY <4>2, Z3
      <4> QED
        BY <4>1, <4>3
    <3> QED
      BY <1>4, <3>1
  <2> DEFINE u == (t + 1) % Word
  <2>2. u \in 0 .. Word - 1 /\ u = 0
    BY <1>1, <2>1
  <2> HIDE DEF u
  <2>3. (u - s) % Word = IF s <= u THEN u - s ELSE u - s + Word
    BY <2>2, Difference
  <2>4. (u - s) % Word = ((t - s) % Word) + 1
    BY <1>1, <1>2, <1>4, <2>2, <2>3
  <2> QED
    BY <2>4 DEF u
<1> QED
  BY <1>1, <1>3, <1>4

\* The word of a difference is never less than the difference (get_ppass_uint).
LEMMA WordAtLeast ==
  ASSUME NEW x \in Int, x < Word
  PROVE  x % Word >= x
<1>0. Word \in Nat /\ Word > 0
  BY Constants
<1>1. CASE x >= 0
  BY <1>0, <1>1, WordFits
<1>2. CASE x < 0
  BY <1>0, <1>2, WordOf
<1> QED
  BY <1>1, <1>2

-----------------------------------------------------------------------------
(* The registers *)

LEMMA DrainedRange ==
  ASSUME TypeOK, NEW p \in Ports, NEW len \in Lengths
  PROVE  Drained(p, len) \in 0 .. kPTHR
<1>1. Interval(p) \in Nat
  BY Constants, WordOf DEF TypeOK, Interval
<1>2. Interval(p) * Rate \in Int
  BY <1>1, Constants
<1>3. ReduceUnit(p) \in 0 .. Word - 1
  BY <1>2, Constants, WordOf DEF ReduceUnit, Rate
<1>4. PpassUnit(p, len) \in 0 .. Word - 1
  <2>1. ReduceUnit(p) - len \in Int
    BY <1>3, WordAssumption
  <2> QED
    BY <2>1, Constants, WordOf DEF PpassUnit
<1>5. phantom[p] \in 0 .. kPTHR
  BY DEF TypeOK
<1> QED
  BY <1>4, <1>5, Constants DEF Drained

LEMMA AddCreditRange ==
  ASSUME NEW v \in Nat, NEW credit \in Credits
  PROVE  AddCredit(v, credit) \in 0 .. kPTHR /\ AddCredit(v, credit) <= v + credit
<1>1. v + credit \in Nat
  BY WordAssumption
<1>2. (v + credit) % Word \in 0 .. Word - 1 /\ (v + credit) % Word <= v + credit
  BY <1>1, Constants, WordOf, WordAtMost
<1> QED
  BY <1>1, <1>2, Constants DEF AddCredit, P4Min

LEMMA TypeInit == Init => TypeOK
  BY Constants DEF Init, TypeOK

LEMMA TypeStep == TypeOK /\ [Next]_vars => TypeOK'
<1> SUFFICES ASSUME TypeOK, [Next]_vars PROVE TypeOK'
  OBVIOUS
<1>1. ASSUME NEW p \in Ports, NEW credit \in Credits, CreditPacket(p, credit)
      PROVE  TypeOK'
  <2>1. phantom[p] \in Nat
    BY DEF TypeOK
  <2>2. AddCredit(phantom[p], credit) \in 0 .. kPTHR
    BY <2>1, AddCreditRange
  <2> QED
    BY <1>1, <2>2 DEF TypeOK, CreditPacket
<1>2. ASSUME NEW p \in Ports, NEW len \in Lengths, NEW depth \in Depths,
             OtherPacket(p, len, depth)
      PROVE  TypeOK'
  BY <1>2, DrainedRange DEF TypeOK, OtherPacket
<1>3. CASE Tick
  <2>1. tstamp + 1 \in Int
    BY DEF TypeOK
  <2>2. (tstamp + 1) % Word \in 0 .. Word - 1
    BY <2>1, Constants, WordOf
  <2> QED
    BY <1>3, <2>2 DEF TypeOK, Tick
<1>4. CASE UNCHANGED vars
  BY <1>4 DEF TypeOK, vars
<1> QED
  BY <1>1, <1>2, <1>3, <1>4 DEF Next

\* The limit only the credit packets look at is the limit of the registers: what
\* the other packets subtract is never more than what is there.
THEOREM TofinoTypeCorrect == AuditSpec => []TypeOK
<1>1. AuditInit => TypeOK
  BY TypeInit DEF AuditInit
<1>2. TypeOK /\ [AuditNext]_auditVars => TypeOK'
  <2>1. [AuditNext]_auditVars => [Next]_vars
    BY DEF AuditNext, Next, auditVars, vars, AuditCredit, AuditOther, AuditTick
  <2> QED
    BY <2>1, TypeStep
<1> QED
  BY <1>1, <1>2, PTL DEF AuditSpec

-----------------------------------------------------------------------------
(* The continuously drained queue *)

LEMMA DrainType ==
  ASSUME AuditInv, NEW p \in Ports
  PROVE  idle[p] \in Nat /\ idle[p] * Rate \in Nat
  BY Constants DEF AuditInv

\* A drain that fits a word is not cut off (get_reduce_uint).
LEMMA ReduceExact ==
  ASSUME AuditInv, NEW p \in Ports, Fits(p)
  PROVE  ReduceUnit(p) = idle[p] * Rate /\ ReduceUnit(p) \in 0 .. Word - 1
<1>1. Interval(p) = idle[p]
  BY DEF AuditInv, ClockInv
<1>2. idle[p] * Rate \in 0 .. Word - 1
  BY DrainType, Constants DEF Fits
<1>3. (idle[p] * Rate) % Word = idle[p] * Rate
  BY <1>2, Constants, WordFits
<1> QED
  BY <1>1, <1>2, <1>3 DEF ReduceUnit, Rate

\* What a packet leaves of a register that was not ahead (get_ppass_uint,
\* ppass_other_pkt_action): the wrapped difference only takes off more.
LEMMA DrainedAtMost ==
  ASSUME AuditInv, NEW p \in Ports \ cutOff, Fits(p), NEW len \in Lengths
  PROVE  Drained(p, len) <= fluid[p] + len
<1>1. ReduceUnit(p) = idle[p] * Rate /\ ReduceUnit(p) \in 0 .. Word - 1
  BY ReduceExact
<1>2. phantom[p] - idle[p] * Rate <= fluid[p] /\ idle[p] * Rate \in Nat
  BY DrainType DEF AuditInv, NeverAhead
<1>3. len \in Nat /\ phantom[p] \in Nat /\ fluid[p] \in Nat
  BY WordAssumption DEF AuditInv, TypeOK
<1>4. /\ ReduceUnit(p) - len \in Int
      /\ ReduceUnit(p) - len < Word
  BY <1>1, <1>3, Constants
<1>5. PpassUnit(p, len) >= ReduceUnit(p) - len /\ PpassUnit(p, len) \in Nat
  BY <1>4, Constants, WordAtLeast, WordOf DEF PpassUnit
<1> QED
  BY <1>1, <1>2, <1>3, <1>5 DEF Drained

\* Marks (nw_marked_table): the truncation to fewer bits only lowers the count.
LEMMA MarksOver ==
  ASSUME TypeOK, NEW p \in Ports, NEW len \in Lengths, NEW depth, Marks(p, len, depth)
  PROVE  PTHR <= Drained(p, len)
<1>1. Drained(p, len) \in Nat
  BY DrainedRange, Constants
<1>2. Drained(p, len) % PqlenWord <= Drained(p, len) /\ Drained(p, len) % PqlenWord \in Nat
  BY <1>1, Constants, WordAtMost, WordOf
<1>3. PTHR <= Drained(p, len) % PqlenWord
  BY <1>2, Constants DEF Marks, P4Min
<1> QED
  BY <1>1, <1>2, <1>3, Constants

LEMMA AuditStart == AuditInit => AuditInv
<1> SUFFICES ASSUME AuditInit PROVE AuditInv
  OBVIOUS
<1>1. TypeOK /\ fluid \in [Ports -> Nat] /\ idle \in [Ports -> Nat] /\ NoFalseMark
  BY TypeInit, Constants DEF AuditInit, Init, NoFalseMark
<1>2. ASSUME NEW p \in Ports
      PROVE  phantom[p] - idle[p] * Rate <= fluid[p] /\ Interval(p) = idle[p]
  <2>1. phantom[p] = 0 /\ fluid[p] = 0 /\ idle[p] = 0 /\ tstamp = 0 /\ stamp[p] = 0
    BY <1>2 DEF AuditInit, Init
  <2>2. 0 * Rate = 0 /\ 0 \in 0 .. Word - 1
    BY Constants
  <2>3. (0 - 0) % Word = 0
    BY <2>2, Difference
  <2> QED
    BY <2>1, <2>2, <2>3 DEF Interval
<1> QED
  BY <1>1, <1>2 DEF AuditInv, NeverAhead, ClockInv

\* A credit packet raises both by the credit, up to the same limit.
LEMMA CreditKeeps ==
  ASSUME AuditInv, NEW q \in Ports, NEW credit \in Credits, AuditCredit(q, credit)
  PROVE  /\ fluid' \in [Ports -> Nat] /\ idle' \in [Ports -> Nat]
         /\ ClockInv' /\ NeverAhead' /\ NoFalseMark'
<1>1. credit \in Nat
  BY WordAssumption
<1>2. /\ fluid' = [fluid EXCEPT ![q] = P4Min(fluid[q] + credit, kPTHR)]
      /\ idle' = idle /\ cutOff' = cutOff /\ marked' = marked
      /\ tstamp' = tstamp /\ stamp' = stamp
      /\ phantom' = [phantom EXCEPT ![q] = AddCredit(phantom[q], credit)]
  BY DEF AuditCredit, CreditPacket
<1>3. fluid[q] + credit \in Nat /\ fluid \in [Ports -> Nat] /\ idle \in [Ports -> Nat]
  BY <1>1 DEF AuditInv
<1>4. P4Min(fluid[q] + credit, kPTHR) \in Nat
  BY <1>3, Constants DEF P4Min
<1>5. fluid' \in [Ports -> Nat] /\ idle' \in [Ports -> Nat]
  BY <1>2, <1>3, <1>4
<1>6. ClockInv'
  BY <1>2 DEF AuditInv, ClockInv, Interval, Fits
<1>7. NeverAhead'
  <2> SUFFICES ASSUME NEW p \in Ports \ cutOff
               PROVE  phantom'[p] - idle[p] * Rate <= fluid'[p]
    BY <1>2 DEF NeverAhead, Rate
  <2>1. /\ idle[p] * Rate \in Nat
        /\ phantom[p] - idle[p] * Rate <= fluid[p]
        /\ phantom[p] \in Nat /\ phantom \in [Ports -> 0 .. kPTHR]
    BY DrainType, Constants DEF AuditInv, NeverAhead, TypeOK
  <2>2. CASE p = q
    <3>1. AddCredit(phantom[q], credit) \in 0 .. kPTHR
          /\ AddCredit(phantom[q], credit) <= phantom[q] + credit
      BY <2>1, <2>2, AddCreditRange
    <3>2. phantom'[q] = AddCredit(phantom[q], credit)
      BY <1>2, <2>1
    <3>3. fluid'[q] = P4Min(fluid[q] + credit, kPTHR)
      BY <1>2, <1>3
    <3> QED
      BY <2>1, <2>2, <3>1, <3>2, <3>3, <1>1, <1>3, Constants DEF P4Min
  <2>3. CASE p # q
    <3>1. phantom'[p] = phantom[p] /\ fluid'[p] = fluid[p]
      BY <1>2, <1>3, <2>1, <2>3
    <3> QED
      BY <2>1, <3>1
  <2> QED
    BY <2>2, <2>3
<1>8. NoFalseMark'
  <2> SUFFICES ASSUME NEW p \in marked \ cutOff PROVE fluid'[p] >= PTHR
    BY <1>2 DEF NoFalseMark
  <2>1. p \in Ports /\ fluid[p] >= PTHR
    BY DEF AuditInv, TypeOK, NoFalseMark
  <2> QED
    BY <2>1, <1>1, <1>2, <1>3, Constants DEF P4Min
<1> QED
  BY <1>5, <1>6, <1>7, <1>8

\* What a packet without credit leaves of its register, if the port is not among the
\* cut off ones afterwards.
LEMMA DrainedNotAhead ==
  ASSUME AuditInv, NEW q \in Ports, NEW len \in Lengths, NEW depth \in Depths,
         AuditOther(q, len, depth), q \notin cutOff'
  PROVE  Drained(q, len) <= fluid[q] + len /\ (q \in marked => q \notin cutOff)
<1>1. len \in Nat /\ fluid[q] \in Nat
  BY WordAssumption DEF AuditInv
<1>2. cutOff' = IF Drained(q, len) = 0 /\ q \notin marked THEN cutOff \ {q}
                ELSE IF Fits(q) THEN cutOff ELSE cutOff \cup {q}
  BY DEF AuditOther
<1>3. CASE Drained(q, len) = 0 /\ q \notin marked
  BY <1>1, <1>3
<1>4. CASE ~(Drained(q, len) = 0 /\ q \notin marked)
  <2>1. Fits(q) /\ q \notin cutOff
    BY <1>2, <1>4
  <2> QED
    BY <2>1, DrainedAtMost
<1> QED
  BY <1>3, <1>4

\* Any other packet brings its register up to date.
LEMMA OtherKeeps ==
  ASSUME AuditInv, NEW q \in Ports, NEW len \in Lengths, NEW depth \in Depths,
         AuditOther(q, len, depth)
  PROVE  /\ fluid' \in [Ports -> Nat] /\ idle' \in [Ports -> Nat]
         /\ ClockInv' /\ NeverAhead' /\ NoFalseMark'
<1>1. len \in Nat
  BY WordAssumption
<1>2. /\ fluid' = [fluid EXCEPT ![q] = P4Min(fluid[q] + len, kPTHR)]
      /\ idle' = [idle EXCEPT ![q] = 0]
      /\ tstamp' = tstamp /\ stamp' = [stamp EXCEPT ![q] = tstamp]
      /\ phantom' = [phantom EXCEPT ![q] = Drained(q, len)]
  BY DEF AuditOther, OtherPacket
<1>3. /\ fluid[q] + len \in Nat /\ fluid \in [Ports -> Nat] /\ idle \in [Ports -> Nat]
      /\ phantom \in [Ports -> 0 .. kPTHR] /\ stamp \in [Ports -> 0 .. Word - 1]
      /\ tstamp \in 0 .. Word - 1
  BY <1>1 DEF AuditInv, TypeOK
<1>4. P4Min(fluid[q] + len, kPTHR) \in Nat
  BY <1>3, Constants DEF P4Min
<1>5. fluid' \in [Ports -> Nat] /\ idle' \in [Ports -> Nat]
  BY <1>2, <1>3, <1>4
<1>6. \A p \in Ports \ {q} : /\ phantom'[p] = phantom[p] /\ fluid'[p] = fluid[p]
                             /\ idle'[p] = idle[p] /\ stamp'[p] = stamp[p]
                             /\ p \in cutOff' <=> p \in cutOff
                             /\ p \in marked' <=> p \in marked
  BY <1>2, <1>3 DEF AuditOther, OtherPacket
<1>7. ClockInv'
  <2> SUFFICES ASSUME NEW p \in Ports, Fits(p)' PROVE Interval(p)' = idle'[p]
    BY DEF ClockInv
  <2>1. CASE p = q
    <3>1. (tstamp - tstamp) % Word = 0
      BY <1>3, Difference
    <3>2. stamp'[q] = tstamp /\ idle'[q] = 0
      BY <1>2, <1>3
    <3> QED
      BY <1>2, <2>1, <3>1, <3>2 DEF Interval
  <2>2. CASE p # q
    <3>1. Fits(p) /\ Interval(p)' = Interval(p) /\ idle'[p] = idle[p]
      BY <1>2, <1>6, <2>2 DEF Fits, Interval, Rate
    <3> QED
      BY <3>1 DEF AuditInv, ClockInv
  <2> QED
    BY <2>1, <2>2
<1>8. Drained(q, len) \in 0 .. kPTHR
  BY DrainedRange DEF AuditInv
<1>9. q \notin cutOff' => Drained(q, len) <= fluid'[q] /\ (q \in marked => q \notin cutOff)
  <2> SUFFICES ASSUME q \notin cutOff'
               PROVE  Drained(q, len) <= fluid'[q] /\ (q \in marked => q \notin cutOff)
    OBVIOUS
  <2>1. Drained(q, len) <= fluid[q] + len /\ (q \in marked => q \notin cutOff)
    BY DrainedNotAhead
  <2> QED
    BY <2>1, <1>2, <1>3, <1>8, Constants DEF P4Min
<1>10. NeverAhead'
  <2> SUFFICES ASSUME NEW p \in Ports \ cutOff'
               PROVE  phantom'[p] - idle'[p] * Rate <= fluid'[p]
    BY DEF NeverAhead, Rate
  <2>1. CASE p = q
    <3>1. idle'[q] = 0 /\ 0 * Rate = 0
      BY <1>2, <1>3, Constants
    <3>2. phantom'[q] = Drained(q, len)
      BY <1>2, <1>3
    <3> QED
      BY <2>1, <3>1, <3>2, <1>5, <1>8, <1>9, Constants
  <2>2. CASE p # q
    <3>1. phantom[p] - idle[p] * Rate <= fluid[p]
      BY <1>6, <2>2 DEF AuditInv, NeverAhead
    <3> QED
      BY <1>6, <2>2, <3>1
  <2> QED
    BY <2>1, <2>2
<1>11. NoFalseMark'
  <2> SUFFICES ASSUME NEW p \in marked' \ cutOff' PROVE fluid'[p] >= PTHR
    BY DEF NoFalseMark
  <2>0. p \in Ports
    BY DEF AuditOther, OtherPacket, AuditInv, TypeOK
  <2>1. CASE p # q
    <3>1. fluid[p] >= PTHR
      BY <1>6, <2>0, <2>1 DEF AuditInv, NoFalseMark
    <3> QED
      BY <1>6, <2>0, <2>1, <3>1
  <2>2. CASE p = q /\ q \in marked
    <3>1. fluid[q] >= PTHR
      BY <1>9, <2>2 DEF AuditInv, NoFalseMark
    <3> QED
      BY <2>2, <3>1, <1>1, <1>2, <1>3, Constants DEF P4Min
  <2>3. CASE p = q /\ q \notin marked
    <3>1. Marks(q, len, depth)
      BY <2>3 DEF AuditOther, OtherPacket
    <3>2. PTHR <= Drained(q, len)
      BY <3>1, MarksOver DEF AuditInv
    <3> QED
      BY <2>3, <3>2, <1>5, <1>8, <1>9, Constants
  <2> QED
    BY <2>1, <2>2, <2>3
<1> QED
  BY <1>5, <1>7, <1>10, <1>11

\* Time passes: the queue drains, and the register is due that much more.  Where the
\* drain no longer fits it is more than any register holds.
LEMMA TickKeeps ==
  ASSUME AuditInv, AuditTick
  PROVE  /\ fluid' \in [Ports -> Nat] /\ idle' \in [Ports -> Nat]
         /\ ClockInv' /\ NeverAhead' /\ NoFalseMark'
<1>1. /\ stamp' = stamp /\ phantom' = phantom /\ marked' = {} /\ cutOff' = cutOff
      /\ tstamp' = (tstamp + 1) % Word
      /\ fluid' = [p \in Ports |-> IF fluid[p] < Rate THEN 0 ELSE fluid[p] - Rate]
      /\ idle' = [p \in Ports |-> IF Fits(p) THEN idle[p] + 1 ELSE idle[p]]
  BY DEF AuditTick, Tick
<1>2. fluid' \in [Ports -> Nat] /\ idle' \in [Ports -> Nat]
  BY <1>1, Constants DEF AuditInv
<1>3. ASSUME NEW p \in Ports
      PROVE  /\ idle[p] \in Nat /\ idle[p] * Rate \in Nat
             /\ Fits(p) => idle'[p] = idle[p] + 1 /\ idle'[p] * Rate = idle[p] * Rate + Rate
             /\ ~Fits(p) => idle'[p] = idle[p]
  <2>1. idle[p] \in Nat /\ idle[p] * Rate \in Nat
    BY DrainType
  <2>2. (idle[p] + 1) * Rate = idle[p] * Rate + Rate
    BY <2>1, Constants
  <2>3. idle'[p] = IF Fits(p) THEN idle[p] + 1 ELSE idle[p]
    BY <1>1
  <2> QED
    BY <2>1, <2>2, <2>3
<1>4. ClockInv'
  <2> SUFFICES ASSUME NEW p \in Ports, Fits(p)' PROVE Interval(p)' = idle'[p]
    BY DEF ClockInv
  <2>1. idle'[p] * Rate < Word
    BY DEF Fits, Rate
  <2>2. Fits(p) /\ idle'[p] = idle[p] + 1 /\ idle[p] * Rate + Rate < Word
    <3>1. CASE Fits(p)
      BY <1>3, <2>1, <3>1
    <3>2. CASE ~Fits(p)
      <4>1. idle'[p] = idle[p]
        BY <1>3, <3>2
      <4> QED
        BY <2>1, <3>2, <4>1 DEF Fits
    <3> QED
      BY <3>1, <3>2
  <2>3. idle[p] + 1 < Word
    <3>1. PICK d \in Nat : Rate = 1 + d
      <4>1. Rate - 1 \in Nat /\ Rate = 1 + (Rate - 1)
        BY Constants
      <4> QED
        BY <4>1
    <3>2. idle[p] * Rate = idle[p] + idle[p] * d /\ idle[p] * d \in Nat
      BY <3>1, <1>3
    <3> QED
      BY <1>3, <2>2, <3>1, <3>2, Constants
  <2>4. Interval(p) = idle[p]
    BY <2>2 DEF AuditInv, ClockInv
  <2>5. tstamp \in 0 .. Word - 1 /\ stamp[p] \in 0 .. Word - 1
    BY DEF AuditInv, TypeOK
  <2>6. (((tstamp + 1) % Word) - stamp[p]) % Word = ((tstamp - stamp[p]) % Word) + 1
    <3>1. ((tstamp - stamp[p]) % Word) + 1 < Word
      BY <2>3, <2>4 DEF Interval
    <3> QED
      BY <2>5, <3>1, DifferenceGrows
  <2> QED
    BY <1>1, <2>2, <2>4, <2>6 DEF Interval
<1>5. NeverAhead'
  <2> SUFFICES ASSUME NEW p \in Ports \ cutOff
               PROVE  phantom[p] - idle'[p] * Rate <= fluid'[p]
    BY <1>1 DEF NeverAhead, Rate
  <2>1. /\ phantom[p] - idle[p] * Rate <= fluid[p]
        /\ phantom[p] \in Nat /\ phantom[p] <= kPTHR /\ fluid[p] \in Nat
    BY Constants DEF AuditInv, NeverAhead, TypeOK
  <2>2. fluid'[p] \in Nat /\ fluid'[p] = IF fluid[p] < Rate THEN 0 ELSE fluid[p] - Rate
    BY <1>1, <1>2
  <2>3. CASE Fits(p)
    <3>1. idle[p] * Rate \in Nat /\ idle'[p] * Rate = idle[p] * Rate + Rate
      BY <1>3, <2>3
    <3> QED
      BY <2>1, <2>2, <3>1, Constants
  <2>4. CASE ~Fits(p)
    <3>1. idle[p] * Rate \in Nat /\ idle'[p] = idle[p]
      BY <1>3, <2>4
    <3>2. Word <= idle[p] * Rate
      BY <2>4, <3>1, Constants DEF Fits
    <3> QED
      BY <2>1, <2>2, <3>1, <3>2, Constants
  <2> QED
    BY <2>3, <2>4
<1> QED
  BY <1>1, <1>2, <1>4, <1>5 DEF NoFalseMark

LEMMA AuditStep == AuditInv /\ [AuditNext]_auditVars => AuditInv'
<1> SUFFICES ASSUME AuditInv, [AuditNext]_auditVars PROVE AuditInv'
  OBVIOUS
<1>1. TypeOK'
  <2>1. [Next]_vars
    BY DEF AuditNext, Next, auditVars, vars, AuditCredit, AuditOther, AuditTick
  <2> QED
    BY <2>1, TypeStep DEF AuditInv
<1>2. ASSUME NEW p \in Ports, NEW credit \in Credits, AuditCredit(p, credit) PROVE AuditInv'
  BY <1>1, <1>2, CreditKeeps DEF AuditInv
<1>3. ASSUME NEW p \in Ports, NEW len \in Lengths, NEW depth \in Depths,
             AuditOther(p, len, depth)
      PROVE  AuditInv'
  BY <1>1, <1>3, OtherKeeps DEF AuditInv
<1>4. CASE AuditTick
  BY <1>1, <1>4, TickKeeps DEF AuditInv
<1>5. CASE UNCHANGED auditVars
  <2>1. ClockInv' /\ NeverAhead' /\ NoFalseMark'
    BY <1>5 DEF AuditInv, auditVars, vars, ClockInv, Fits, Interval, NeverAhead, NoFalseMark, Rate
  <2> QED
    BY <1>1, <1>5, <2>1 DEF AuditInv, auditVars
<1> QED
  BY <1>2, <1>3, <1>4, <1>5 DEF AuditNext

\* A register that is drained only when a packet goes out, by words that wrap around,
\* never runs ahead of a queue that drains all the time, for any limit, rate, packet
\* lengths and run of the switch, except at a port whose drain did not fit a word.
THEOREM RegisterNeverAhead == AuditSpec => []NeverAhead
<1>1. AuditInv => NeverAhead
  BY DEF AuditInv
<1> QED
  BY <1>1, AuditStart, AuditStep, PTL DEF AuditSpec

\* No packet is marked at any other port while that queue is below the threshold.
THEOREM RegisterMarksJustified == AuditSpec => []NoFalseMark
<1>1. AuditInv => NoFalseMark
  BY DEF AuditInv
<1> QED
  BY <1>1, AuditStart, AuditStep, PTL DEF AuditSpec
=============================================================================
