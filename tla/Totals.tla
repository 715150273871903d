------------------------------- MODULE Totals -------------------------------
(***************************************************************************)
(* The sum of a function's values, counted out in units: a value of n      *)
(* stands for n pairs, so that sums of disjoint parts add up as            *)
(* cardinalities do.                                                       *)
(***************************************************************************)
EXTENDS Integers, FiniteSets

Units(f) == UNION {{x} \X (1 .. f[x]) : x \in DOMAIN f}
Total(f) == Cardinality(Units(f))
=============================================================================
