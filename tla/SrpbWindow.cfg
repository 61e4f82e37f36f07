\* Both signals, one minimum below a frame and one of two frames; a bucket of five
\* frames, and averages that are those of the last round.
CONSTANTS
  Markable = {"nw", "host"}
  MaxFrame = 5
  MaxSrpb = 25
  MinWindow <- MCMinima
  Additive = 1
  One = 1
  Weight = 1
  PriorityFlow = FALSE
  PktCap = 8
SPECIFICATION FairSpec
INVARIANTS
  TypeOK
  RatioIsFraction
  RoundAhead
PROPERTIES
  RatioFollows
  Recovers
  Yields
