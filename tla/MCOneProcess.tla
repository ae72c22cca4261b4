---------------------------- MODULE MCOneProcess ----------------------------
(***************************************************************************)
(* One process with one scheduler: t1 and t2, with two attempts each,       *)
(* compete for the single slot of q1, and t3 asks for q2, which has no row. *)
(* A call may raise, the process may crash and restart, and a signal may    *)
(* shut a worker down while the process goes on.                            *)
(***************************************************************************)
EXTENDS DynamicScheduler, TLC

CONSTANTS t1, t2, t3, p1, q1, q2, s1

MCTasks == {t1, t2, t3}
MCQueueOf == (t1 :> q1) @@ (t2 :> q1) @@ (t3 :> q2)
MCMaxConcurrent == q1 :> 1
MCProcOf == [t \in MCTasks |-> p1]
MCSchedulerOf == [t \in MCTasks |-> s1]
MCRetries == (t1 :> 1) @@ (t2 :> 1) @@ (t3 :> 0)
=============================================================================
