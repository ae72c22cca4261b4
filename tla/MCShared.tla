------------------------------ MODULE MCShared ------------------------------
(***************************************************************************)
(* Two processes share the task table and the single slot of q1: p1 runs t1 *)
(* and, as r1, recover_cluster_state; p2 runs t2, whose workflow cannot be  *)
(* translated, so that it takes a slot and fails.  A call may raise, a      *)
(* process may crash and restart, and a signal may shut a worker down.      *)
(***************************************************************************)
EXTENDS DynamicScheduler, TLC

CONSTANTS t1, t2, r1, p1, p2, q1, s1, s2

MCTasks == {t1, t2}
MCQueueOf == [t \in MCTasks |-> q1]
MCMaxConcurrent == q1 :> 1
MCProcOf == (t1 :> p1) @@ (t2 :> p2) @@ (r1 :> p1)
MCSchedulerOf == (t1 :> s1) @@ (t2 :> s2)
MCRetries == (t1 :> 1) @@ (t2 :> 0)
=============================================================================
