\* Two ports, marking at more than one byte with a backlog over one.
CONSTANTS
  Ports = {1, 2}
  Packets <- CrossingPackets
  Backlogs = {0, 2}
  Pthr = 1
  QueueThresh = 1
  Num = 3
  Den = 2
  MaxTime = 3
SPECIFICATION AuditSpec
INVARIANTS
  TypeOK
  NeverAhead
  NoFalseMark
