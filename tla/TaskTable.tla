----------------------------- MODULE TaskTable ------------------------------
(***************************************************************************)
(* The rows of the `tasks` and `task_queues` tables the scheduler works on, *)
(* as persistence/adapters/task.py and my_queue.py read and write them.     *)
(* Each operator is one database transaction of the code.  A row is kept    *)
(* to its status: nothing the scheduler does depends on the other columns   *)
(* (version is read back only by TaskStorage.save, retries only to compute  *)
(* a date nothing reads).                                                   *)
(***************************************************************************)
EXTENDS Naturals, FiniteSets

CONSTANTS Tasks,           \* task ids
          Queues,          \* queue names a task may carry
          QueueOf,         \* Task.queue_name
          QueueRows,       \* the queues that have a row in the queue table
          MaxConcurrent    \* Queue.max_concurrent of each of those rows

ASSUME TableAssumption ==
    /\ IsFiniteSet(Tasks)
    /\ QueueOf \in [Tasks -> Queues]
    /\ QueueRows \subseteq Queues
    /\ MaxConcurrent \in [QueueRows -> Nat]

VARIABLE status            \* TaskModel.status, or "absent" before the insert

TaskStatus == {"pending", "running", "timeout", "released"}

TableTypeOK == status \in [Tasks -> TaskStatus \cup {"absent"}]

TableInit == status = [t \in Tasks |-> "absent"]

\* TaskStorage.save for a new id: the status column takes its default.
InsertRow(t) ==
    /\ status[t] = "absent"
    /\ status' = [status EXCEPT ![t] = "pending"]

\* TaskStorage.update_task_status without expected_current, as every caller
\* calls it: the row is locked and overwritten whatever it held.
UpdateTaskStatus(t, s) ==
    /\ status[t] # "absent"
    /\ status' = [status EXCEPT ![t] = s]

\* The same call when the database raises: the transaction was rolled back,
\* or it was committed and only the answer was lost.
UpdateTaskStatusRaises(t, s) == UpdateTaskStatus(t, s) \/ UNCHANGED status

Running(q) == {t \in Tasks : QueueOf[t] = q /\ status[t] = "running"}

GetConcurrency(q) == Cardinality(Running(q))

GetByStatus(S) == {t \in Tasks : status[t] \in S}
=============================================================================
