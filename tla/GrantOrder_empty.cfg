\* Time sharing alone.
CONSTANTS
  s1 = s1
  s2 = s2
  a = a
  b = b
  c = c
  Senders = {s1, s2}
  Msgs = {a, b, c}
  Replies = {}
  Src <- OrderSrc
  Size <- OrderSize
  MaxPayload = 4
  Overhead = 1
  MinFrame = 3
  Budget = 13
  MaxSrpb = 9
  UnsolThresh <- Everything
  Windows = {9}
  Policies = {"TS"}
SPECIFICATION OrderSpec
INVARIANTS
  NextFound
CHECK_DEADLOCK FALSE
