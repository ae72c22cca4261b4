----------------------------- MODULE MCWorkers ------------------------------
(***************************************************************************)
(* Two registrars of one process and four calls on the queue, with two      *)
(* assets to register: enough for two restarts that overlap a third call,   *)
(* and for a worker whose registrar no longer receives the signals.         *)
(***************************************************************************)
EXTENDS WorkerRegistry, TLC

CONSTANTS a, b
=============================================================================
