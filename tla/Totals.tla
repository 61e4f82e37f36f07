------------------------------- MODULE Totals -------------------------------
(***************************************************************************)
(* Totals of a weight over a finite set.  The credit loop is a bookkeeping *)
(* argument about byte totals (bytes in flight, bytes in the senders'      *)
(* pools, ...), so the properties need a sum.  A total is defined as the   *)
(* number of weight units, one pair per unit, rather than by recursion:    *)
(* the cardinality of a finite set is something the proofs can reason      *)
(* about.                                                                  *)
(***************************************************************************)
EXTENDS Naturals, FiniteSets

\* The units of weight that w gives to the elements of S.
Units(w, S) == UNION {{x} \X (1 .. w[x]) : x \in S}

\* The sum of w[x] over the elements x of S.
Total(w, S) == Cardinality(Units(w, S))
=============================================================================
