----------------------------- MODULE MCSrpbWindow -----------------------------
(* Small frames for TLC: a bucket of a few frames, minima as fractions of it. *)
EXTENDS SrpbWindow

\* One minimum below a frame, and one that is reached.
MCMinima == [k \in Signals |-> IF k = "nw" THEN 1 ELSE 2 * MaxFrame]
=============================================================================
