----------------------------- MODULE MCBreaker -----------------------------
(***************************************************************************)
(* Instances of Breaker for TLC.                                           *)
(***************************************************************************)
EXTENDS Breaker, TLC

CONSTANTS c1, c2, c3
Symmetry == Permutations({c1, c2, c3})
=============================================================================
