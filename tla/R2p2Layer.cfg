\* Two clients, two servers, three requests.
CONSTANTS
  Clients = {c1, c2}
  Servers = {s1, s2}
  Payloads = {2, 7}
  Chunk = 3
  Req0 = 1
  ReplySize = 1
  MaxRequests <- RequestBounds
  c1 = c1
  c2 = c2
SPECIFICATION FairSpec
INVARIANTS
  TimerCoversQueue
  QueuedStateLives
  FirstPacketFirst
  ReplyAwaited
PROPERTIES
  NoReopening
  Implements
  AllSettled
\* The clients stop after MaxRequests, but the collection timer never does.
