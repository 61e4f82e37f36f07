------------------------------- MODULE PPassAudit -------------------------------
(***************************************************************************)
(* The phantom queue as it is meant: a queue that drains all the time at   *)
(* the given rate, beside the lazily drained count of PPassPort.  fluid    *)
(* is kept in 1/Den of a byte, so that it is exact.                        *)
(***************************************************************************)
EXTENDS PPassPort

VARIABLES
  fluid,        \* fluid[p]: the continuously drained phantom queue, times Den
  lost          \* lost[p]: what Drain has rounded away since p was last empty

auditVars == <<vars, fluid, lost>>

AuditInit ==
  /\ Init
  /\ fluid = [p \in Ports |-> 0]
  /\ lost = [p \in Ports |-> 0]

Arrive(level, bytes) == AtMost(level + Den * bytes, Den * Cap)
CreditIn(pkt) == IF pkt.kind = "GRANT" THEN pkt.credit ELSE 0
BytesOut(pkt) ==
  IF pkt.kind \in {"GRANT", "GRANT_REQ"} \/ pkt.unsol THEN pkt.size ELSE 0

\* The part of the drain since the last packet that is less than a byte.
Fraction(p) == IF last[p] = 0 THEN 0 ELSE (Num * (now - last[p])) % Den

AuditForward(in, out, pkt, backlog) ==
  /\ Forward(in, out, pkt, backlog)
  /\ fluid' = [fluid EXCEPT ![in] = Arrive(@, CreditIn(pkt)),
                            ![out] = Arrive(@, BytesOut(pkt))]
  /\ lost' = [lost EXCEPT ![out] = IF pqlen'[out] = 0 THEN 0 ELSE @ + Fraction(out)]

AuditForwardNowhere(in, pkt) ==
  /\ ForwardNowhere(in, pkt)
  /\ fluid' = [fluid EXCEPT ![in] = Arrive(@, CreditIn(pkt))]
  /\ UNCHANGED lost

\* A port drains from the first packet it sends on.
AuditTick ==
  /\ Tick
  /\ fluid' = [p \in Ports |-> IF last[p] = 0 THEN fluid[p] ELSE Minus(fluid[p], Num)]
  /\ UNCHANGED lost

AuditNext ==
  \/ \E in, out \in Ports, pkt \in Packets, backlog \in Backlogs :
       AuditForward(in, out, pkt, backlog)
  \/ \E in \in Ports, pkt \in Packets : AuditForwardNowhere(in, pkt)
  \/ AuditTick

AuditSpec == AuditInit /\ [][AuditNext]_auditVars
-----------------------------------------------------------------------------
\* Types of the audit variables.
AuditTypeOK == fluid \in [Ports -> Nat] /\ lost \in [Ports -> Nat]

\* What the port has yet to drain.
Due(p) == IF last[p] = 0 THEN 0 ELSE Num * (now - last[p])

\* Draining only when a packet goes out, in whole bytes, never makes the count
\* of a port run ahead of a queue that drains all the time, by more than the
\* fractions rounded away since the port was last empty
\* (classifier-hash.cc:290-301).
NeverAhead == \A p \in Ports : Den * pqlen[p] - Due(p) <= fluid[p] + lost[p]

\* A packet is marked only if the continuously drained phantom queue of its
\* port is over the threshold, up to the same fractions
\* (classifier-hash.cc:304-310).
NoFalseMark == \A p \in marked : fluid[p] + lost[p] > Den * Pthr
=============================================================================
