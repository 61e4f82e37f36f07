---------------------------- MODULE MCHybridCredit ----------------------------
(* Instances of HybridCredit for TLC.  A frame carries 4 bytes of payload and *)
(* 1 of overhead and is at least 3 bytes long, so that the last packet of a   *)
(* message may be padded (1 byte), exact (2), longer (3) or full (4).  In     *)
(* every instance two or more messages share the pool of s1.                  *)
EXTENDS HybridCredit, TLC

CONSTANTS s1, s2, a, b, c, d

\* Three messages of s1 whose credit strands in a bucket of less than 8 bytes,
\* and one of s2.
ScheduledSrc  == (a :> s1) @@ (b :> s1) @@ (d :> s1) @@ (c :> s2)
ScheduledSize == (a :> 4) @@ (b :> 6) @@ (d :> 1) @@ (c :> 4)

\* Two messages of two packets.
PairSrc  == (a :> s1) @@ (b :> s1)
PairSize == (a :> 5) @@ (b :> 6)
=============================================================================
