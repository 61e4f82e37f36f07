------------------------------ MODULE SrpbWindow ------------------------------
(***************************************************************************)
(* The congestion control of R2p2CCHybrid: how a receiver moves the window *)
(* max_srpb_bytes_ of one sender, on every packet of it, with the default  *)
(* sender_algo 0.  Two windows follow two ECN signals, the mark of the     *)
(* network and the one of the sending host, by the same rule: the marked   *)
(* fraction of the packets is averaged once per window of packets, a mark  *)
(* cuts its window by half that average at most once per one and a half    *)
(* windows of packets, and every packet adds a share of a frame.  The      *)
(* smaller window counts.                                                  *)
(***************************************************************************)
EXTENDS Integers

CONSTANTS
  Markable,           \* the signals whose marking is switched on
  MaxFrame,           \* MAX_ETHERNET_FRAME_ON_WIRE
  MaxSrpb,            \* max_srpb_: where every window starts and what limits it
  MinWindow,          \* MinWindow[k]: nw_min_srpb_, host_min_srpb_
  Additive,           \* additive_incr_mul_
  One, Weight,        \* ratios are in units of 1/One; ce_new_weight_ is Weight/One
  PriorityFlow,       \* priority_flow_
  PktCap              \* bound: packet counts stop here

\* The network's mark and the mark of the sending host.
Signals == {"nw", "host"}

ASSUME WindowAssumption ==
  /\ Markable \subseteq Signals
  /\ MaxFrame \in Nat \ {0} /\ MaxSrpb \in Nat
  /\ MinWindow \in [Signals -> 1 .. MaxSrpb]
  /\ MaxFrame <= MaxSrpb
  /\ Additive \in Nat
  /\ One \in Nat \ {0} /\ Weight \in 0 .. One
  /\ PriorityFlow \in BOOLEAN
  /\ PktCap \in Nat /\ PktCap > (3 * MaxSrpb) \div (2 * MaxFrame)

VARIABLES
  window,             \* nw_max_srpb_bytes_, host_max_srpb_bytes_
  maxSrpb,            \* max_srpb_bytes_
  ratio,              \* nw_marked_ratio_, host_marked_ratio_
  burst,              \* nw_ecn_burst_, host_ecn_burst_
  marked,             \* pkts_nw_marked_since_last_ratio_update_, pkts_ht_...
  sinceRatio,         \* pkts_since_last_ratio_update_
  atRatio,            \* pkts_at_next_ratio_update_
  sinceCut,           \* pkts_nw_since_last_wnd_update_, pkts_ht_...
  atCut               \* pkts_nw_at_next_wnd_update_, pkts_ht_...

vars == <<window, maxSrpb, ratio, burst, marked, sinceRatio, atRatio, sinceCut, atCut>>

-----------------------------------------------------------------------------
Larger(a, b)  == IF a >= b THEN a ELSE b
Smaller(a, b) == IF a <= b THEN a ELSE b

\* A packet count, which the code keeps in 32 bits: no comparison tells counts
\* from PktCap on apart.
Count(n) == Smaller(n, PktCap)

\* What one packet adds to a window; the division is of integers.
Increase == Additive * ((MaxFrame * MaxFrame) \div maxSrpb)

\* The average r, with m of the last n packets marked.
Averaged(r, m, n) == ((One - Weight) * r * n + Weight * One * m) \div (One * n)

Clamped(k, w) == Smaller(Larger(MinWindow[k], w), MaxSrpb)

\* The SenderState of a new sender.
Init ==
  /\ window = [k \in Signals |-> MaxSrpb]
  /\ maxSrpb = MaxSrpb
  /\ ratio = [k \in Signals |-> 0]
  /\ burst = [k \in Signals |-> FALSE]
  /\ marked = [k \in Signals |-> 0]
  /\ sinceRatio = 0
  /\ atRatio = 1
  /\ sinceCut = [k \in Signals |-> 0]
  /\ atCut = [k \in Signals |-> MaxSrpb \div MaxFrame]

\* This packet ends a round of the averages: update_sender_state counts it, compares,
\* and starts the next round when the two windows are done.
Updates == Count(sinceRatio + 1) = atRatio

\* Mutant of RatioDue: the packet is not among those counted.
RatioDueLate == sinceRatio = atRatio

\* The comparison that update_nw_state and update_sn_state make again, each for its
\* own average.
RatioDue == Count(sinceRatio + 1) = atRatio

\* The packets of the round with this mark, this packet included.
MarkedNow(k, marks) == Count(IF k \in marks THEN marked[k] + 1 ELSE marked[k])

RatioNow(k, marks) ==
  IF RatioDue THEN Averaged(ratio[k], MarkedNow(k, marks), Count(sinceRatio + 1)) ELSE ratio[k]

MarkedAfter(k, marks) == IF RatioDue THEN 0 ELSE MarkedNow(k, marks)

\* Mutant of Cuts: only the first mark of a burst cuts.
CutsOncePerBurst(k, marks) ==
  k \in marks /\ ~burst[k] /\ Count(sinceCut[k] + 1) >= atCut[k]

\* Only a marked packet cuts, after so many packets since the last cut.
Cuts(k, marks) == k \in marks /\ Count(sinceCut[k] + 1) >= atCut[k]

\* Mutant of NextCut: bytes, not packets.
NextCutBytes == (3 * maxSrpb) \div 2

NextCut == (3 * maxSrpb) \div (2 * MaxFrame)

\* Mutant of ShouldAi: a marked packet does not increase.
ShouldAiUnmarked(k, marks) == k \notin marks

\* The burst flag was set just before by the marked packet itself, so that the
\* condition for the increase, not marked or in a burst, always holds.
ShouldAi(k, marks) == k \notin marks \/ burst'[k]

\* Mutant of WindowAfter: the increase is held back to the next cut.
WindowAfterCutOnly(k, marks) ==
  Clamped(k, IF Cuts(k, marks)
               THEN (2 * One * (window[k] + Increase) - window[k] * RatioNow(k, marks)) \div (2 * One)
               ELSE window[k])

\* The window is an int: what is left after a cut is rounded down.
WindowAfter(k, marks) ==
  LET grown == window[k] + IF ShouldAi(k, marks) THEN Increase ELSE 0
  IN  Clamped(k, IF Cuts(k, marks)
                   THEN (2 * One * grown - window[k] * RatioNow(k, marks)) \div (2 * One)
                   ELSE grown)

\* Mutant of RoundAfter: the count is not started anew.
RoundAfterNoReset ==
  /\ sinceRatio' = Count(sinceRatio + 1)
  /\ atRatio' = IF Updates THEN maxSrpb' \div MaxFrame ELSE atRatio

\* The next round takes a window of packets, as many whole frames as fit in it.
RoundAfter ==
  /\ sinceRatio' = IF Updates THEN 0 ELSE Count(sinceRatio + 1)
  /\ atRatio' = IF Updates THEN maxSrpb' \div MaxFrame ELSE atRatio

\* The smaller of the two windows.
Tighter == Smaller(window'["nw"], window'["host"])

\* update_sender_state, update_nw_state and update_sn_state: a packet with these
\* marks; prio is set on the requests of the sender's preferred receiver.
ReceivePacket(marks, prio) ==
  /\ burst' = [k \in Signals |-> k \in marks]
  /\ ratio' = [k \in Signals |-> RatioNow(k, marks)]
  /\ marked' = [k \in Signals |-> MarkedAfter(k, marks)]
  /\ window' = [k \in Signals |-> WindowAfter(k, marks)]
  /\ sinceCut' = [k \in Signals |-> IF Cuts(k, marks) THEN 0 ELSE Count(sinceCut[k] + 1)]
  /\ atCut' = [k \in Signals |-> IF Cuts(k, marks) THEN NextCut ELSE atCut[k]]
  /\ maxSrpb' = IF PriorityFlow /\ prio THEN MaxSrpb ELSE Tighter
  /\ RoundAfter

Next == \E marks \in SUBSET Markable, prio \in BOOLEAN : ReceivePacket(marks, prio)

Spec == Init /\ [][Next]_vars

(* A sender that has messages for this receiver keeps sending: its credit is  *)
(* never withheld for good.                                                   *)
FairSpec == Spec /\ WF_vars(Next)
-----------------------------------------------------------------------------
\* The types.  The window cannot reach 0, by which Increase divides; the counts
\* of marked packets and the ratios are bounded below by the next property only.
TypeOK ==
  /\ window \in [Signals -> Nat]
  /\ maxSrpb \in 1 .. MaxSrpb
  /\ ratio \in [Signals -> Nat]
  /\ burst \in [Signals -> BOOLEAN]
  /\ marked \in [Signals -> 0 .. PktCap]
  /\ sinceRatio \in 0 .. PktCap
  /\ atRatio \in 0 .. PktCap
  /\ sinceCut \in [Signals -> 0 .. PktCap]
  /\ atCut \in [Signals -> 0 .. PktCap]

\* The assertions at r2p2-cc-hybrid.cc:1783-1784: the averages are fractions.  They
\* stay so because the counts they are made of, kept by three functions that
\* each decide for themselves whether a round is over, never disagree.
RatioIsFraction == \A k \in Signals : marked[k] <= sinceRatio /\ ratio[k] <= One

\* No window falls below a frame: its minimum forbids it, or the increase that a
\* marked packet brings along makes up for its cut.  The latter needs max_srpb_bytes_
\* to be the window itself, which a preferred flow breaks.
FramesFit ==
  \/ \A k \in Signals : MinWindow[k] >= MaxFrame
  \/ Additive >= 1 /\ ~PriorityFlow

\* The end of a round of the averages lies ahead, which the comparison for
\* equality at r2p2-cc-hybrid.cc:1230 takes for granted: a window of less than a
\* frame would give a round of no packets, and no count would ever match.
RoundAhead == FramesFit => sinceRatio < atRatio

\* What a step leaves of a window: half of it at least, all of it without a mark.
HalfIsLeft(k) == 2 * window'[k] >= window[k] - 1 /\ (window'[k] < window[k] => burst'[k])

\* One packet never takes more than half of a window, and only a marked one takes
\* any (r2p2-cc-hybrid.cc:1357-1364).
AtMostHalved == [][\A k \in Signals : HalfIsLeft(k)]_vars

\* "updates when the window is small must have a larger weight"
\* (r2p2-cc-hybrid.cc:1235-1238): however small the window, as long as packets
\* come in the averages follow the marks.
RatioFollows == []<>(sinceRatio = 0)

\* When a signal is no longer marked its window opens up again, all the way
\* (r2p2-cc-hybrid.cc:1352-1356).
Recovers ==
  \A k \in Signals : <>[](~burst[k]) => <>[](window[k] = MaxSrpb)

\* A signal that is marked all the time keeps its window small, although every
\* packet increases it: what is added in one and a half windows of packets is
\* less than what the cut at their end takes from a window of four frames.
Yields ==
  \A k \in Signals : <>[](burst[k]) => <>[](window[k] <= 4 * MaxFrame)
=============================================================================
