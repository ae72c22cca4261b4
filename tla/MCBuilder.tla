----------------------------- MODULE MCBuilder ------------------------------
(***************************************************************************)
(* Three operator names and two stages; up to four declared dependencies:   *)
(* enough for cycles of length one to three, duplicate edges, a diamond's   *)
(* join, and names used in both stages.                                     *)
(***************************************************************************)
EXTENDS WorkflowBuilder, TLC

CONSTANTS a, b, c, s1, s2

Symmetry == Permutations({a, b, c}) \cup Permutations({s1, s2})
=============================================================================
