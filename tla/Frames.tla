-------------------------------- MODULE Frames --------------------------------
(***************************************************************************)
(* What packets cost on the wire, and the credit a message may give        *)
(* itself: the arithmetic that the credit loop (HybridCredit) and the      *)
(* queues of a sender (SenderQueues) share.                                *)
(***************************************************************************)
EXTENDS Integers

CONSTANTS
  MaxPayload,   \* MAX_R2P2_PAYLOAD
  Overhead,     \* headers + inter-packet gap + preamble
  MinFrame,     \* MIN_ETHERNET_FRAME_ON_WIRE
  MaxSrpb       \* max_srpb_

MaxFrame == MaxPayload + Overhead

ASSUME FramesAssumption ==
  /\ MaxPayload \in Nat \ {0}
  /\ Overhead \in Nat
  /\ MinFrame \in 1 .. MaxFrame
  /\ MaxSrpb \in Nat /\ MaxSrpb >= MaxFrame
-----------------------------------------------------------------------------
Larger(a, b)  == IF a >= b THEN a ELSE b
Smaller(a, b) == IF a <= b THEN a ELSE b

\* What a packet of n application bytes costs on the wire.
Wire(n) == Larger(n + Overhead, MinFrame)

\* The application bytes of the next packet of a message with n bytes to go.
NextPayload(n) == Smaller(n, MaxPayload)

AddHeaderOverhead(n) ==
  (n \div MaxPayload) * MaxFrame
    + IF n % MaxPayload > 0 THEN Wire(n % MaxPayload) ELSE 0

\* A part of size that does not fill a frame is ignored.
RemoveHeaderOverhead(size) == (size \div MaxFrame) * MaxPayload

\* What a message of n bytes would cover with its own credit in an empty pool: all of
\* its bytes, or as many full packets as fit in the bucket.
Wanted(n) == IF AddHeaderOverhead(n) > MaxSrpb THEN RemoveHeaderOverhead(MaxSrpb) ELSE n

\* Mutant of SelfCreditData: what the pool already holds does not matter.
SelfCreditDataAlone(n, a) == Wanted(n)

\* The application bytes a message of n bytes covers with its own credit when the
\* pool already holds a: never more than the pool may still take, except that there
\* is always room for a frame.
SelfCreditData(n, a) ==
  LET room == Larger(MaxSrpb - a, MaxFrame)
  IN  IF AddHeaderOverhead(Wanted(n)) > room THEN RemoveHeaderOverhead(room) ELSE Wanted(n)

SelfCredit(n, a) == Larger(AddHeaderOverhead(SelfCreditData(n, a)), MinFrame)
=============================================================================
