----------------------------- MODULE MCRegistry -----------------------------
(***************************************************************************)
(* Three processes with two calls each on one operator name: two of them    *)
(* can register while the third deletes.  Names are independent, and a      *)
(* second one would only multiply the states.                               *)
(***************************************************************************)
EXTENDS OperatorRegistry, TLC

CONSTANTS c1, c2, c3

Symmetry == Permutations({c1, c2, c3})
=============================================================================
