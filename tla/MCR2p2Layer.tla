------------------------------ MODULE MCR2p2Layer ------------------------------
(* Two clients for TLC, of which one asks twice.  Packets hold 3 bytes and REQ0 1: *)
(* a request of 2 bytes is one packet, one of 7 bytes three, the last one short.   *)
EXTENDS R2p2Layer, TLC

CONSTANTS c1, c2

RequestBounds == (c1 :> 2) @@ (c2 :> 1)
=============================================================================
