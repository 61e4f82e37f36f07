\* Two ports; 2 bytes drain in a unit of time.  The clock wraps around after 8 units
\* and the drain after 4, by when the longest phantom queue would long be empty.
CONSTANTS
  Ports = {p1, p2}
  Credits = {3}
  Lengths = {1, 3}
  Depths = {36, 37}
  PTHR = 2
  kPTHR = 5
  RHO_LINE_RATE = 1
  IsEMPTY_THRESHOLD = 37
  Word = 8
  PqlenWord = 8
SPECIFICATION AuditSpec
PROPERTY DrainsAtRate
