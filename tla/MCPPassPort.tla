------------------------------ MODULE MCPPassPort ------------------------------
(* A switch of two ports for TLC.  The link drains 3 bytes in 2 units of time, *)
(* so every other drain is rounded; a grant of 9 bytes nearly fills the limit  *)
(* of 10, and two of them exceed it.                                          *)
EXTENDS PPassAudit

R2p2(kind, credit, size, unsol) ==
  [kind |-> kind, credit |-> credit, size |-> size, unsol |-> unsol]

CrossingPackets ==
  { R2p2("GRANT", 9, 1, FALSE),       R2p2("GRANT", 2, 1, FALSE),
    R2p2("GRANT_REQ", 0, 1, FALSE),   R2p2("REQUEST", 0, 2, FALSE),
    R2p2("REQUEST", 0, 2, TRUE),      R2p2("REPLY", 0, 3, TRUE) }
=============================================================================
