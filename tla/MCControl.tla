----------------------------- MODULE MCControl ------------------------------
(***************************************************************************)
(* Three coroutines on two connections: t1 has a row and no operators, so   *)
(* its control calls reach the save; t2 has two operators and no row until  *)
(* it is submitted.                                                         *)
(***************************************************************************)
EXTENDS TaskControl, TLC

CONSTANTS c1, c2, c3, t1, t2

MCIndex == (t1 :> 1) @@ (t2 :> 2)
MCOperators == (t1 :> 0) @@ (t2 :> 2)
=============================================================================
