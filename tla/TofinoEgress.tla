------------------------------ MODULE TofinoEgress ------------------------------
(***************************************************************************)
(* The phantom queues of the hardware switch: tofino/PhantomPass.p4.  Each *)
(* port has a byte register, limited at kPTHR, and a register for the time *)
(* of its last packet.  A credit packet (msg_type 1) adds its credit to    *)
(* the register of the port it came in through, any other PPASS packet     *)
(* drains the register of the port it goes out through.  The registers and *)
(* the metadata are unsigned words and wrap around.                        *)
(***************************************************************************)
EXTENDS Integers

CONSTANTS
  Ports,              \* the ports, fewer than the registers have entries
  Credits,            \* the credit a credit packet may carry
  Lengths,            \* the total_len another packet may have
  Depths,             \* the deq_qdepth it may find
  PTHR, kPTHR, RHO_LINE_RATE, IsEMPTY_THRESHOLD,
  Word,               \* the number of values of a bit<32>
  PqlenWord           \* the number of values of a bit<24>

ASSUME WordAssumption ==
  /\ Word \in Nat /\ PqlenWord \in Nat
  /\ PTHR \in Nat \ {0} /\ kPTHR \in Nat /\ PTHR <= kPTHR
  /\ kPTHR < PqlenWord /\ PqlenWord <= Word
  /\ Credits \subseteq 0 .. Word - 1 /\ Lengths \subseteq 0 .. Word - 1
  /\ RHO_LINE_RATE \in Nat /\ 2 ^ RHO_LINE_RATE \in Nat \ {0}
  /\ Depths \subseteq Nat /\ IsEMPTY_THRESHOLD \in Nat

VARIABLES
  phantom,            \* Phantom_Queue_Reg
  stamp,              \* Timestamp_Reg
  tstamp,             \* global_tstamp[31:0]
  marked              \* the ports a packet has left with nw_marked at this instant

vars == <<phantom, stamp, tstamp, marked>>

-----------------------------------------------------------------------------
P4Min(x, y) == IF x <= y THEN x ELSE y

\* Mutant of AddCredit: the register is not limited.
AddCreditUnlimited(value, credit) == (value + credit) % Word

\* ppass_credit_pkt_action
AddCredit(value, credit) == P4Min((value + credit) % Word, kPTHR)

\* get_and_update_timestamp and get_reduce_uint
Interval(p)   == (tstamp - stamp[p]) % Word
ReduceUnit(p) == (Interval(p) * 2 ^ RHO_LINE_RATE) % Word

\* get_ppass_uint: wraps around when the packet is longer than the drain.
PpassUnit(p, len) == (ReduceUnit(p) - len) % Word

\* ppass_other_pkt_action
Drained(p, len) ==
  IF phantom[p] < PpassUnit(p, len) THEN 0 ELSE phantom[p] - PpassUnit(p, len)

\* Mutant of Marks: the register is looked at before it is drained.
MarksUndrained(p, len, depth) ==
  /\ P4Min(PTHR, phantom[p] % PqlenWord) = PTHR
  /\ P4Min(IsEMPTY_THRESHOLD, depth) = IsEMPTY_THRESHOLD

\* nw_marked_table and is_empty_table
Marks(p, len, depth) ==
  /\ P4Min(PTHR, Drained(p, len) % PqlenWord) = PTHR
  /\ P4Min(IsEMPTY_THRESHOLD, depth) = IsEMPTY_THRESHOLD
-----------------------------------------------------------------------------
Init ==
  /\ phantom = [p \in Ports |-> 0]
  /\ stamp = [p \in Ports |-> 0]
  /\ tstamp = 0
  /\ marked = {}

\* Mutant of CreditPacket: a credit packet updates the time register as well.
CreditPacketStamped(p, credit) ==
  /\ phantom' = [phantom EXCEPT ![p] = AddCredit(@, credit)]
  /\ stamp' = [stamp EXCEPT ![p] = tstamp]
  /\ UNCHANGED <<tstamp, marked>>

\* A credit packet that came in through p, whichever port it goes out through.
CreditPacket(p, credit) ==
  /\ phantom' = [phantom EXCEPT ![p] = AddCredit(@, credit)]
  /\ UNCHANGED <<stamp, tstamp, marked>>

\* Any other packet, going out through p.
OtherPacket(p, len, depth) ==
  /\ phantom' = [phantom EXCEPT ![p] = Drained(p, len)]
  /\ stamp' = [stamp EXCEPT ![p] = tstamp]
  /\ marked' = IF Marks(p, len, depth) THEN marked \cup {p} ELSE marked
  /\ UNCHANGED tstamp

\* The low 32 bits of the clock start again every 4.3 seconds.
Tick ==
  /\ tstamp' = (tstamp + 1) % Word
  /\ marked' = {}
  /\ UNCHANGED <<phantom, stamp>>

Next ==
  \/ \E p \in Ports, credit \in Credits : CreditPacket(p, credit)
  \/ \E p \in Ports, len \in Lengths, depth \in Depths : OtherPacket(p, len, depth)
  \/ Tick

Spec == Init /\ [][Next]_vars
-----------------------------------------------------------------------------
\* The types; kPTHR limits the register although only the credit packets look at
\* it (PhantomPass.p4:227-232), because the other packets can only lower it.
TypeOK ==
  /\ phantom \in [Ports -> 0 .. kPTHR]
  /\ stamp \in [Ports -> 0 .. Word - 1]
  /\ tstamp \in 0 .. Word - 1
  /\ marked \subseteq Ports

\* What the port drains at is "rho * line_rate Bytes/ns" (headers.p4:6): a packet
\* takes no more off the register than this rate times the time since the last.
DrainsAtRate ==
  [][\A p \in Ports : phantom[p] - phantom'[p] <= RHO_LINE_RATE * Interval(p)]_vars
=============================================================================
