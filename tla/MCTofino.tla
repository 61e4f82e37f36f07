-------------------------------- MODULE MCTofino --------------------------------
(* The registers at a small fraction of their size for TLC, in words of three *)
(* bits: packets shorter, as long and longer than the drain of a unit of time. *)
EXTENDS TofinoAudit, TLC

\* The ports share the clock only, and no port is special.
Symmetry == Permutations(Ports)
=============================================================================
