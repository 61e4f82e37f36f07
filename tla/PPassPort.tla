------------------------------- MODULE PPassPort -------------------------------
(***************************************************************************)
(* The phantom queues of a simulated switch: DestHashClassifier            *)
(* (classifier-hash.cc).  Every port counts the bytes that its link will   *)
(* have to carry, as if the link were slower than it is.  Credit is        *)
(* counted when the grant comes in through the port, because the data it   *)
(* pays for goes out through it; packets nobody granted are counted when   *)
(* they go out.  The count is only drained when a packet goes out.         *)
(***************************************************************************)
EXTENDS Integers

CONSTANTS
  Ports,        \* the interface labels in port_status_map_
  Packets,      \* the R2P2 packets that may cross the switch
  Backlogs,     \* the lengths the egress queue of a port may have, in bytes
  Pthr,         \* pthr_
  QueueThresh,  \* p_egress_queue_thresh_byte_
  Num, Den,     \* rho_ * line_rate_gbps_ is Num / Den bytes per unit of time
  MaxTime       \* bound: the clock stops here

Cap == 10 * Pthr

Kinds == {"GRANT", "GRANT_REQ", "REQUEST", "REPLY"}

ASSUME PacketsAssumption ==
  Packets \subseteq [kind : Kinds, credit : Nat, size : Nat, unsol : BOOLEAN]
ASSUME NumbersAssumption ==
  /\ Backlogs \subseteq Nat
  /\ Pthr \in Nat \ {0} /\ QueueThresh \in Nat \cup {-1}
  /\ Num \in Nat /\ Den \in Nat \ {0} /\ MaxTime \in Nat

VARIABLES
  pqlen,        \* pqlen[p]: pqlen_ of the PPassPortStatus of p
  last,         \* last[p]: its last_time_
  now,          \* the clock of the scheduler
  marked        \* the ports a packet has left with CE set at this instant

vars == <<pqlen, last, now, marked>>

-----------------------------------------------------------------------------
AtMost(x, limit) == IF x <= limit THEN x ELSE limit
Minus(x, y)      == IF y > x THEN 0 ELSE x - y

\* Mutant of AfterIngress: the count is not limited when credit comes in.
AfterIngressUncapped(q, pkt) == q + IF pkt.kind = "GRANT" THEN pkt.credit ELSE 0

\* ppass_ingress
AfterIngress(q, pkt) ==
  AtMost(q + IF pkt.kind = "GRANT" THEN pkt.credit ELSE 0, Cap)

\* Mutant of CountedOnExit: the data packets that a grant paid for as well.
CountedAlways(pkt) == TRUE

\* The packets that no grant has paid for.
CountedOnExit(pkt) == pkt.kind \in {"GRANT", "GRANT_REQ"} \/ pkt.unsol

\* The bytes drained since the last packet went out, in whole bytes; a clock of
\* 0 means that none has.
Drain(p) == IF last[p] = 0 THEN 0 ELSE (Num * (now - last[p])) \div Den

\* Mutant of OnExit: the drain is applied after the threshold has been looked at.
OnExitUndrained(p, pkt) == pqlen[p] + IF CountedOnExit(pkt) THEN pkt.size ELSE 0

\* What ppass_egress compares with the threshold.
OnExit(p, pkt) ==
  Minus(pqlen[p] + IF CountedOnExit(pkt) THEN pkt.size ELSE 0, Drain(p))

Marks(p, pkt, backlog) ==
  /\ pkt.kind # "GRANT"
  /\ OnExit(p, pkt) > Pthr
  /\ backlog > QueueThresh
-----------------------------------------------------------------------------
Init ==
  /\ pqlen = [p \in Ports |-> 0]
  /\ last = [p \in Ports |-> 0]
  /\ now = 0
  /\ marked = {}

\* Mutant of Forward: the clock of the port the packet came in through is
\* refreshed too.
ForwardTouchingBoth(in, out, pkt, backlog) ==
  /\ in # out
  /\ pqlen' = [pqlen EXCEPT ![in] = AfterIngress(@, pkt),
                            ![out] = AtMost(OnExit(out, pkt), Cap)]
  /\ last' = [last EXCEPT ![in] = now, ![out] = now]
  /\ marked' = IF Marks(out, pkt, backlog) THEN marked \cup {out} ELSE marked
  /\ UNCHANGED now

\* classify, and MultiPathForwarder::classify where the route has several paths:
\* a packet crosses the switch.
Forward(in, out, pkt, backlog) ==
  /\ in # out
  /\ pqlen' = [pqlen EXCEPT ![in] = AfterIngress(@, pkt),
                            ![out] = AtMost(OnExit(out, pkt), Cap)]
  /\ last' = [last EXCEPT ![out] = now]
  /\ marked' = IF Marks(out, pkt, backlog) THEN marked \cup {out} ELSE marked
  /\ UNCHANGED now

\* get_iface finds no interface behind the slot: only the ingress half happens.
ForwardNowhere(in, pkt) ==
  /\ pqlen' = [pqlen EXCEPT ![in] = AfterIngress(@, pkt)]
  /\ UNCHANGED <<last, now, marked>>

Tick ==
  /\ now < MaxTime
  /\ now' = now + 1
  /\ marked' = {}
  /\ UNCHANGED <<pqlen, last>>

Next ==
  \/ \E in, out \in Ports, pkt \in Packets, backlog \in Backlogs :
       Forward(in, out, pkt, backlog)
  \/ \E in \in Ports, pkt \in Packets : ForwardNowhere(in, pkt)
  \/ Tick

Spec == Init /\ [][Next]_vars
-----------------------------------------------------------------------------
\* The types, and the bound the code sets twice: the count of a port never
\* exceeds ten thresholds between packets (classifier-hash.cc:275-276,311-312).
TypeOK ==
  /\ pqlen \in [Ports -> 0 .. Cap]
  /\ last \in [Ports -> Nat]
  /\ now \in Nat
  /\ \A p \in Ports : last[p] <= now
  /\ marked \subseteq Ports
=============================================================================
