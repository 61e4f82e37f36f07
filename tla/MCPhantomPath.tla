----------------------------- MODULE MCPhantomPath -----------------------------
(* Two requests of one sender whose packets are spread over two spines and    *)
(* whose credit is shared, a packet that nobody granted, and a reply.         *)
EXTENDS PhantomPath, TLC

CONSTANTS s1, recv, a, b, c, r

PathSrc  == (a :> s1) @@ (b :> s1) @@ (c :> s1) @@ (r :> s1)
PathSize == (a :> 9) @@ (b :> 6) @@ (c :> 2) @@ (r :> 1)

\* Another spine for the packets that end at 4 and 6, seen from the receiver; the
\* other way round the packets are spread differently.
SpineOf(key) ==
  IF key[1] = recv THEN IF key[3] \in {4, 6} THEN 1 ELSE 2
                   ELSE IF key[3] \in {4, 8} THEN 1 ELSE 2
=============================================================================
