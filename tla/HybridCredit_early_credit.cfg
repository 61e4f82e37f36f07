\* Unsolicited messages of two packets: another message may spend their credit first.
CONSTANTS
  s1 = s1
  s2 = s2
  a = a
  b = b
  c = c
  d = d
  Senders = {s1}
  Msgs = {a, b}
  Replies = {}
  Src <- PairSrc
  Size <- PairSize
  MaxPayload = 4
  Overhead = 1
  MinFrame = 3
  Budget = 13
  MaxSrpb = 9
  UnsolThresh = 8
  Windows = {9}
SPECIFICATION Spec
INVARIANTS
  BudgetWithinMax
CHECK_DEADLOCK FALSE
