\* Two receivers.  Messages announced, unsolicited, and unsolicited for a part: cut by
\* the bucket (c) or by what the pool holds (b or d).  The shortest is preferred.
CONSTANTS
  Receivers = {"x", "y"}
  None = None
  Unit = 4
  FsWeight = 2
  Msgs = {"a", "b", "c", "d"}
  Dst <- MCDst
  Size <- MCSize
  Unsolicited = {"b", "c", "d"}
  MaxPayload = 4
  Overhead = 1
  MinFrame = 4
  MaxSrpb = 14
SPECIFICATION FairQSpec
INVARIANTS
  QTypeOK
  UntoldCovered
  PoolLimited
  CreditUsedUp
PROPERTIES
  Implements
  AllSent
