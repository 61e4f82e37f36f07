\* Frames of 5, messages of one packet unsolicited, two spines.
CONSTANTS
  s1 = s1
  recv = recv
  a = a
  b = b
  c = c
  r = r
  Senders = {s1}
  Msgs = {a, b, c, r}
  Replies = {r}
  Src <- PathSrc
  Size <- PathSize
  MaxPayload = 4
  Overhead = 1
  MinFrame = 3
  Budget = 13
  MaxSrpb = 9
  UnsolThresh = 5
  Windows = {4, 9}
  Spines = {1, 2}
  Receiver = recv
  Crc <- SpineOf
SPECIFICATION FairPathSpec
INVARIANTS
  CreditConserved
  BudgetWithinMax
  GrantsMatchData
  PathsBalance
PROPERTIES
  CreditReturns
  Delivers
CHECK_DEADLOCK FALSE
