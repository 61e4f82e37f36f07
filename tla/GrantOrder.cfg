\* The three policies; messages unsolicited up to the bucket.
CONSTANTS
  s1 = s1
  s2 = s2
  a = a
  b = b
  c = c
  Senders = {s1, s2}
  Msgs = {a, b, c}
  Replies = {}
  Src <- OrderSrc
  Size <- OrderSize
  MaxPayload = 4
  Overhead = 1
  MinFrame = 3
  Budget = 13
  MaxSrpb = 9
  UnsolThresh <- Everything
  Windows = {9}
  Policies = {"TS", "SRPT", "BIF"}
SPECIFICATION FairOrderSpec
INVARIANTS
  OrderKept
PROPERTIES
  ShortestFirst
  Completes
CHECK_DEADLOCK FALSE
