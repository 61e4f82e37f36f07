------------------------------ MODULE SenderAudit ------------------------------
(***************************************************************************)
(* What the deficits of SenderPolicy are for, told by a history the code   *)
(* does not keep: for how many packets a receiver that could send all the  *)
(* time had to wait for others.                                            *)
(***************************************************************************)
EXTENDS SenderPolicy, Totals

CONSTANT
  Bound               \* Bound[n]: the most deficit any n receivers hold together

\* The deficits of n receivers after a packet follow from those of n + 1 before it:
\* the one that paid had the largest.  The least such bound for one receiver is
\* Unit * (1 + 1/2 + ... + 1/N).
ASSUME BoundAssumption ==
  /\ Bound \in [1 .. Cardinality(Receivers) -> Nat]
  /\ \A n \in 1 .. Cardinality(Receivers) : n * Unit <= Bound[n]
  /\ \A n \in 1 .. Cardinality(Receivers) - 1 :
        n * (Bound[n + 1] + Unit) <= (n + 1) * Bound[n]

VARIABLE
  waited              \* waited[r]: packets of others since r could not send or was served

auditVars == <<vars, waited>>

-----------------------------------------------------------------------------
AuditInit == Init /\ waited = [r \in Receivers |-> 0]

Waits ==
  waited' = [r \in Receivers |-> IF r \in canSend' \ {served'} THEN waited[r] + 1 ELSE 0]

AuditNext == Next /\ Waits

AuditSpec == AuditInit /\ [][AuditNext]_auditVars
-----------------------------------------------------------------------------
\* The deficit of one receiver is at most Bound[1], about 1 + ln N units for N
\* receivers, and that of any group accordingly: "assert(ps_ret->deficit_ <= 10.0);
\* // I think this should hold." (r2p2-hybrid-support.cc:361) holds with fewer than
\* twelve thousand receivers.
DeficitsBounded ==
  \A S \in SUBSET Receivers : S # {} => Total(deficit, S) <= Bound[Cardinality(S)]

\* No receiver that can send waits for more packets than this, however often
\* others are preferred (the fair quantum, r2p2-hybrid-support.cc:214-219).
BoundedWait ==
  \A r \in Receivers : waited[r] * (FsWeight \div Cardinality(Receivers)) <= Bound[1]
=============================================================================
