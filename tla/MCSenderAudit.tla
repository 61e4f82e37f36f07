----------------------------- MODULE MCSenderAudit -----------------------------
(* Three receivers and a deficit of 1.0 in twelfths. *)
EXTENDS SenderAudit, TLC

\* The least bounds that satisfy BoundAssumption for Unit = 12.
MCBound == <<22, 32, 36>>

Symmetry == Permutations(Receivers)
=============================================================================
