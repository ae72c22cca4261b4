------------------------------- MODULE MCFair -------------------------------
(***************************************************************************)
(* Liveness, and the slots two processes lend together: t1 and t2 compete   *)
(* in p1 for the only slot of q1, with two attempts each, and with t3 in    *)
(* p2, whose class register refuses for want of a configuration; one        *)
(* external call may raise.                                                 *)
(***************************************************************************)
EXTENDS DynamicScheduler, TLC

CONSTANTS t1, t2, t3, p1, p2, q1, s1, s2

MCTasks == {t1, t2, t3}
MCQueueOf == (t1 :> q1) @@ (t2 :> q1) @@ (t3 :> q1)
MCMaxConcurrent == q1 :> 1
MCProcOf == (t1 :> p1) @@ (t2 :> p1) @@ (t3 :> p2)
MCSchedulerOf == (t1 :> s1) @@ (t2 :> s1) @@ (t3 :> s2)
MCRetries == (t1 :> 1) @@ (t2 :> 1) @@ (t3 :> 0)
=============================================================================
