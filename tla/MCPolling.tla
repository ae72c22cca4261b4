----------------------------- MODULE MCPolling ------------------------------
(***************************************************************************)
(* Deadlines below and above what a poll and an interval take together, and *)
(* one that has passed before the first poll; polls without a pause between *)
(* them; requests of one or two waits, each up to a timeout that may be     *)
(* refused (0) or, for a status request, left to the interval.              *)
(***************************************************************************)
EXTENDS AsyncPolling
=============================================================================
