------------------------------ MODULE MCTable -------------------------------
(***************************************************************************)
(* Table on small instances.                                               *)
(***************************************************************************)
EXTENDS Table, TLC

Symmetry == Permutations(Subs) \cup Permutations(Values)
=============================================================================
