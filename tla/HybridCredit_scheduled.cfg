\* Every message is announced and scheduled (unsolicited_thresh_bytes_ 0).
CONSTANTS
  s1 = s1
  s2 = s2
  a = a
  b = b
  c = c
  d = d
  Senders = {s1, s2}
  Msgs = {a, b, c, d}
  Replies = {}
  Src <- ScheduledSrc
  Size <- ScheduledSize
  MaxPayload = 4
  Overhead = 1
  MinFrame = 3
  Budget = 13
  MaxSrpb = 9
  UnsolThresh = 0
  Windows = {4, 9}
SPECIFICATION FairSpec
INVARIANTS
  TypeOK
  PayloadConserved
PROPERTIES
  NoRevival
  Completion
CHECK_DEADLOCK FALSE
