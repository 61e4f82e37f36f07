------------------------------ MODULE TofinoAudit ------------------------------
(***************************************************************************)
(* The phantom queue the registers of TofinoEgress stand for: limited at   *)
(* kPTHR, drained all the time, and with every byte of every packet        *)
(* counted.  Beside it the true time a port has not sent, which no word    *)
(* cuts off: the switch only knows the word of it, and of its drain.       *)
(***************************************************************************)
EXTENDS TofinoEgress

VARIABLES
  fluid,              \* fluid[p]: the continuously drained phantom queue of p
  idle,               \* idle[p]: the time since p last sent a packet without credit
  cutOff              \* the ports where the drain of such a time did not fit a word,
                      \* and whose register has not been empty since

auditVars == <<vars, fluid, idle, cutOff>>

\* What a port drains in a unit of time, and whether the drain of its idle time fits
\* reduce_unit.
Rate == 2 ^ RHO_LINE_RATE
Fits(p) == idle[p] * Rate < Word

AuditInit ==
  /\ Init
  /\ fluid = [p \in Ports |-> 0]
  /\ idle = [p \in Ports |-> 0]
  /\ cutOff = {}

AuditCredit(p, credit) ==
  /\ CreditPacket(p, credit)
  /\ fluid' = [fluid EXCEPT ![p] = P4Min(@ + credit, kPTHR)]
  /\ UNCHANGED <<idle, cutOff>>

AuditOther(p, len, depth) ==
  /\ OtherPacket(p, len, depth)
  /\ fluid' = [fluid EXCEPT ![p] = P4Min(@ + len, kPTHR)]
  /\ idle' = [idle EXCEPT ![p] = 0]
  /\ cutOff' = IF Drained(p, len) = 0 /\ p \notin marked THEN cutOff \ {p}
               ELSE IF Fits(p) THEN cutOff ELSE cutOff \cup {p}

\* An idle time is not counted on once its drain no longer fits.
AuditTick ==
  /\ Tick
  /\ fluid' = [p \in Ports |-> IF fluid[p] < Rate THEN 0 ELSE fluid[p] - Rate]
  /\ idle' = [p \in Ports |-> IF Fits(p) THEN idle[p] + 1 ELSE idle[p]]
  /\ UNCHANGED cutOff

AuditNext ==
  \/ \E p \in Ports, credit \in Credits : AuditCredit(p, credit)
  \/ \E p \in Ports, len \in Lengths, depth \in Depths : AuditOther(p, len, depth)
  \/ AuditTick

AuditSpec == AuditInit /\ [][AuditNext]_auditVars

\* However often the clock, the interval or the difference in get_ppass_uint wraps
\* around, a register that is drained only when a packet goes out never runs ahead of
\* the continuously drained queue, unless that very port's drain did not fit a word,
\* and then only until its register is empty again (PhantomPass.p4:183-191,214-221,
\* 234-243).
NeverAhead ==
  \A p \in Ports \ cutOff : phantom[p] - idle[p] * Rate <= fluid[p]

\* No such port marks a packet while that queue is below PTHR; the truncation to 24
\* bits does no harm (PhantomPass.p4:195,256-261).
NoFalseMark == \A p \in marked \ cutOff : fluid[p] >= PTHR
=============================================================================
