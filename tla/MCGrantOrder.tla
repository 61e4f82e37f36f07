----------------------------- MODULE MCGrantOrder -----------------------------
(* Two messages of s1 share a pool, one of s2 competes with them for the budget. *)
(* The two are longer than the bucket, with frames of 4 + 1 bytes, so that each   *)
(* needs grants for its end although it is unsolicited.                          *)
EXTENDS GrantOrder

CONSTANTS s1, s2, a, b, c

OrderSrc  == [m \in Msgs |-> IF m = c THEN s2 ELSE s1]
OrderSize == [m \in Msgs |-> CASE m = a -> 10 [] m = b -> 11 [] m = c -> 9]

\* Every message is unsolicited up to the bucket.
Everything == -1
=============================================================================
