------------------------------ MODULE SlotPool ------------------------------
(***************************************************************************)
(* What the queue's concurrency slots promise, whatever the code does to    *)
(* keep the promise: a slot is taken or given back one task at a time, and  *)
(* a queue never lends more than Cap[q] of them.                            *)
(***************************************************************************)
EXTENDS Naturals, FiniteSets

CONSTANTS Tasks,      \* the tasks that may hold a slot
          Queues,     \* the task queues
          QueueOf,    \* the queue each task asks
          Cap         \* how many slots each queue may lend

VARIABLE held         \* the tasks that hold a slot of their queue

HeldOf(q) == {t \in held : QueueOf[t] = q}

Init == held = {}

Take(t) ==
    /\ t \notin held
    /\ Cardinality(HeldOf(QueueOf[t])) < Cap[QueueOf[t]]
    /\ held' = held \cup {t}

Free(t) ==
    /\ t \in held
    /\ held' = held \ {t}

Next == \E t \in Tasks : Take(t) \/ Free(t)

Spec == Init /\ [][Next]_held
=============================================================================
