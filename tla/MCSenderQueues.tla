---------------------------- MODULE MCSenderQueues ----------------------------
(* A frame carries 4 bytes of payload and 1 of overhead and is at least 4 bytes *)
(* long: the last packets are padded (a, b and d) or full (c).                  *)
EXTENDS SenderQueues

MCDst  == [m \in Msgs |-> IF m = "c" THEN "y" ELSE "x"]
MCSize == [m \in Msgs |-> CASE m = "a" -> 1 [] m \in {"b", "d"} -> 9 [] m = "c" -> 12]
=============================================================================
