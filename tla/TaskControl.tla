----------------------------- MODULE TaskControl ----------------------------
(***************************************************************************)
(* Who writes a task's row and its version column: TaskEngine.submit_task,  *)
(* cancel_task, pause_task and resume_task (engine.py) load and save the    *)
(* whole task, while the scheduler overwrites its status, each in sessions  *)
(* of the database's pool.  The three control calls differ in the status    *)
(* they set on the loaded Task, and call remove_job, pause_job or           *)
(* resume_job, which do nothing.  A client is a coroutine with one call at  *)
(* a time:                                                                  *)
(*                                                                          *)
(*   idle       no call                                                     *)
(*   load       TaskStorage.load: the query for the row                     *)
(*   operators  _deserialize_workflow: between two operator loads           *)
(*   fetched    an operator has been read; its block is about to close      *)
(*   lock       save, update_task_status: about to take a connection        *)
(*   select     ... about to lock the row                                   *)
(*   write      ... about to write and commit                               *)
(*   insert     ... about to insert and commit, or waiting to               *)
(***************************************************************************)
EXTENDS Database

CONSTANTS Tasks,       \* task ids
          Stored,      \* those that have a row at first
          Index,       \* where each id is in the order of the primary key
          Operators,   \* how many operators the workflow of each task has
          Controls,    \* the statuses cancel, pause and resume want to set
          Updates,     \* the statuses the scheduler writes
          MaxCalls,    \* bound: calls of each client
          MaxFaults    \* bound: calls of the database that raise

ASSUME ControlAssumption ==
    /\ Rows = Tasks /\ Tasks # {}
    /\ Stored \subseteq Tasks
    /\ Index \in [Tasks -> Nat]
    /\ \A t, u \in Tasks : Index[t] = Index[u] => t = u
    /\ Operators \in [Tasks -> Nat]
    /\ Controls \cap Updates = {}
    /\ {"submit", "absent"} \cap (Controls \cup Updates) = {}
    /\ MaxCalls \in Nat
    /\ MaxFaults \in Nat

VARIABLES status,      \* TaskModel.status, or "absent" before the insert
          version,     \* TaskModel.version
          writes,      \* history: committed updates of each row
          pc,          \* where each client's call is
          op,          \* "submit", or the status it wants to set
          target,      \* its task
          seen,        \* the version of the Task it holds
          left,        \* operators its session has still to load
          saved,       \* what its save has committed
          outcome,     \* how its last call ended
          calls,       \* how many calls it has made
          faults       \* how many calls of the database have raised

rowVars == <<status, version, writes>>
callVars == <<op, target, calls>>
vars == <<conn, lockVars, rowVars, pc, seen, left, saved, outcome, callVars,
          faults>>

Init ==
    /\ DbInit
    /\ status = [t \in Tasks |-> IF t \in Stored THEN "pending" ELSE "absent"]
    /\ version = [t \in Tasks |-> 0]
    /\ writes = [t \in Tasks |-> 0]
    /\ pc = [c \in Clients |-> "idle"]
    /\ op = [c \in Clients |-> "submit"]
    /\ target = [c \in Clients |-> CHOOSE t \in Tasks : TRUE]
    /\ seen = [c \in Clients |-> 0]
    /\ left = [c \in Clients |-> 0]
    /\ saved = [c \in Clients |-> "nothing"]
    /\ outcome = [c \in Clients |-> "none"]
    /\ calls = [c \in Clients |-> 0]
    /\ faults = 0

Goto(c, to) == pc' = [pc EXCEPT ![c] = to]

\* The call returns or raises; its `async with` block closes the session.
End(c, how) ==
    /\ Goto(c, "idle")
    /\ outcome' = [outcome EXCEPT ![c] = how]
    /\ Close(SessionOf(c, 0))

Begin(c, t, o, first) ==
    /\ pc[c] = "idle" /\ calls[c] < MaxCalls
    /\ calls' = [calls EXCEPT ![c] = @ + 1]
    /\ op' = [op EXCEPT ![c] = o]
    /\ target' = [target EXCEPT ![c] = t]
    /\ Goto(c, first)
    /\ saved' = [saved EXCEPT ![c] = "nothing"]
    /\ outcome' = [outcome EXCEPT ![c] = "none"]
    /\ UNCHANGED <<conn, lockVars, rowVars, left, faults>>

\* A TaskBuilder gives every Task it builds the same id and version 0.
BuiltVersion == 0

\* submit_task saves the Task it is given: a new one, or one built again.
Submit(c, t) ==
    /\ Begin(c, t, "submit", "lock")
    /\ seen' = [seen EXCEPT ![c] = BuiltVersion]

\* cancel_task, pause_task and resume_task first load the task.
Control(c, t) ==
    /\ \E o \in Controls : Begin(c, t, o, "load")
    /\ UNCHANGED seen

\* The scheduler's update_task_status, which knows only the id.
Update(c, t) ==
    /\ \E o \in Updates : Begin(c, t, o, "lock")
    /\ UNCHANGED seen

Missing(t) == status[t] = "absent"

\* TaskStorage.load: the row, then its operators before the block closes.
LoadTask(c) ==
    LET t == target[c] IN
    /\ pc[c] = "load" /\ ~Missing(t)
    /\ Connect(SessionOf(c, 0))
    /\ Goto(c, "operators")
    /\ seen' = [seen EXCEPT ![c] = version[t]]
    /\ left' = [left EXCEPT ![c] = Operators[t]]
    /\ UNCHANGED <<lockVars, rowVars, saved, outcome, callVars, faults>>

\* No row: _convert_from_model(None) raises, `return False` is not reached.
LoadFindsNothing(c) ==
    /\ pc[c] = "load" /\ Missing(target[c])
    /\ ~PoolFull(SessionOf(c, 0))
    /\ End(c, "error")
    /\ UNCHANGED <<rowVars, seen, left, saved, callVars, faults>>

\* OperatorStorage.load inside the block of TaskStorage.load or save: its
\* statement goes through the coroutine's one session ...
FetchOperator(c) ==
    /\ pc[c] = "operators" /\ left[c] > 0
    /\ Connect(SessionOf(c, 1))
    /\ Goto(c, "fetched")
    /\ UNCHANGED <<lockVars, rowVars, seen, left, saved, outcome, callVars, faults>>

\* ... whose connection the inner block gives back.
CloseOperator(c) ==
    /\ pc[c] = "fetched"
    /\ Close(SessionOf(c, 1))
    /\ left' = [left EXCEPT ![c] = @ - 1]
    /\ Goto(c, "operators")
    /\ UNCHANGED <<rowVars, seen, saved, outcome, callVars, faults>>

\* load returns the Task and save turns it into a row again: a loaded
\* operator is a plain Operator, which _serialize_operator refuses.
LoadReturns(c) ==
    /\ pc[c] = "operators" /\ left[c] = 0 /\ saved[c] = "nothing"
    /\ \/ /\ Operators[target[c]] > 0
          /\ End(c, "error")
       \/ /\ Operators[target[c]] = 0
          /\ Close(SessionOf(c, 0))
          /\ Goto(c, "lock")
          /\ UNCHANGED outcome
    /\ UNCHANGED <<rowVars, seen, left, saved, callVars, faults>>

\* The end of save: it rebuilds the Task from the model it has just written,
\* whose status is set only where the insert has filled in the default.
SaveReturns(c) ==
    /\ pc[c] = "operators" /\ left[c] = 0 /\ saved[c] # "nothing"
    /\ End(c, IF saved[c] = "inserted" THEN "ok" ELSE "error")
    /\ UNCHANGED <<rowVars, seen, left, saved, callVars, faults>>

TakeConnection(c) ==
    /\ pc[c] = "lock"
    /\ Connect(SessionOf(c, 0))
    /\ Goto(c, "select")
    /\ UNCHANGED <<lockVars, rowVars, seen, left, saved, outcome, callVars, faults>>

\* A faulty variant: the row is compared with the version to be written.
StaleAgainstNext(c) == op[c] \notin Updates /\ seen[c] + 1 # version[target[c]]

\* The version check of save; update_task_status has none.
Stale(c) == op[c] \notin Updates /\ seen[c] # version[target[c]]

\* A faulty variant: the row is read without its lock.
SelectUnlocked(c) ==
    /\ pc[c] = "select" /\ ~Missing(target[c]) /\ ~Stale(c)
    /\ Goto(c, "write")
    /\ UNCHANGED <<conn, lockVars, rowVars, seen, left, saved, outcome, callVars,
                   faults>>

\* SELECT ... FOR UPDATE finds the row and its version is the one expected.
SelectForUpdate(c) ==
    /\ pc[c] = "select" /\ ~Missing(target[c]) /\ ~Stale(c)
    /\ LockRow(SessionOf(c, 0), target[c])
    /\ Goto(c, "write")
    /\ UNCHANGED <<conn, rowVars, seen, left, saved, outcome, callVars, faults>>

\* A faulty variant: the exception leaves the session open.
SelectFindsStaleOpen(c) ==
    /\ pc[c] = "select" /\ ~Missing(target[c]) /\ Stale(c)
    /\ LockRow(SessionOf(c, 0), target[c])
    /\ Goto(c, "idle")
    /\ outcome' = [outcome EXCEPT ![c] = "conflict"]
    /\ UNCHANGED <<conn, rowVars, seen, left, saved, callVars, faults>>

\* A faulty variant: a save that is refused is tried again from the load.
SelectFindsStaleRetries(c) ==
    /\ pc[c] = "select" /\ ~Missing(target[c]) /\ Stale(c)
    /\ lockedBy[target[c]] \in {Nobody, SessionOf(c, 0)}
    /\ Close(SessionOf(c, 0))
    /\ Goto(c, "load")
    /\ UNCHANGED <<rowVars, seen, left, saved, outcome, callVars, faults>>

\* ConcurrencyError: another write came after the load.
SelectFindsStale(c) ==
    /\ pc[c] = "select" /\ ~Missing(target[c]) /\ Stale(c)
    /\ lockedBy[target[c]] \in {Nobody, SessionOf(c, 0)}
    /\ End(c, "conflict")
    /\ UNCHANGED <<rowVars, seen, left, saved, callVars, faults>>

\* There is no row to lock: save will insert one and keeps the lock of its gap
\* till then, update_task_status raises TaskNotFound.
SelectFindsNothing(c) ==
    /\ pc[c] = "select" /\ Missing(target[c])
    /\ \/ /\ op[c] \in Updates
          /\ End(c, "error")
       \/ /\ op[c] \notin Updates
          /\ Goto(c, "insert")
          /\ LockGap(SessionOf(c, 0), target[c])
          /\ UNCHANGED <<conn, outcome>>
    /\ UNCHANGED <<rowVars, seen, left, saved, callVars, faults>>

Put(t, s, v) ==
    /\ status' = [status EXCEPT ![t] = s]
    /\ version' = [version EXCEPT ![t] = v]
    /\ writes' = [writes EXCEPT ![t] = IF Missing(t) THEN 0 ELSE @ + 1]

\* The update counts in SQL; the merge writes the loaded version plus one, and
\* no status: _convert_to_model leaves it out.
WriteRow(c) ==
    LET t == target[c] IN
    IF op[c] \in Updates THEN Put(t, op[c], version[t] + 1)
                         ELSE Put(t, status[t], seen[c] + 1)

\* commit gives the connection and the lock back; save goes on to rebuild the
\* Task.
SaveCommitted(c, what) ==
    /\ Close(SessionOf(c, 0))
    /\ Goto(c, "operators")
    /\ saved' = [saved EXCEPT ![c] = what]
    /\ left' = [left EXCEPT ![c] = Operators[target[c]]]
    /\ UNCHANGED outcome

Commit(c) ==
    /\ pc[c] = "write"
    /\ WriteRow(c)
    /\ \/ op[c] \in Updates /\ End(c, "ok") /\ UNCHANGED <<left, saved>>
       \/ op[c] \notin Updates /\ SaveCommitted(c, "merged")
    /\ UNCHANGED <<seen, callVars, faults>>

\* Two missing rows lie in one gap: no row of the table is between them.
SameGap(t, u) ==
    \A r \in Tasks : ~Missing(r) => (Index[r] < Index[t] <=> Index[r] < Index[u])

\* INSERT waits while another session has the gap locked.
WaitsForGap(c) ==
    /\ pc[c] = "insert" /\ Missing(target[c])
    /\ \E g \in gaps : g[1] # SessionOf(c, 0) /\ SameGap(g[2], target[c])

\* A new row takes the defaults of both columns.
Insert(c) ==
    /\ pc[c] = "insert" /\ Missing(target[c]) /\ ~WaitsForGap(c)
    /\ Put(target[c], "pending", 0)
    /\ SaveCommitted(c, "inserted")
    /\ UNCHANGED <<seen, callVars, faults>>

\* ConcurrentUpdate: another submit_task has inserted the row meanwhile.
InsertRefused(c) ==
    /\ pc[c] = "insert" /\ ~Missing(target[c])
    /\ End(c, "conflict")
    /\ UNCHANGED <<rowVars, seen, left, saved, callVars, faults>>

\* The other session keeps the gap for an INSERT of its own, which waits for
\* this one: a deadlock.  MySQL aborts one of the two (error 1213).
DeadlockVictim(c) ==
    /\ WaitsForGap(c)
    /\ End(c, "error")
    /\ UNCHANGED <<rowVars, seen, left, saved, callVars, faults>>

\* A statement or a commit raises; a commit may have happened all the same.
DatabaseRaises(c) ==
    /\ faults < MaxFaults
    /\ faults' = faults + 1
    /\ \/ /\ \/ pc[c] \in {"load", "lock", "select", "write", "insert"}
             \/ pc[c] = "operators" /\ left[c] > 0
          /\ UNCHANGED rowVars
       \/ pc[c] = "write" /\ WriteRow(c)
       \/ /\ pc[c] = "insert" /\ Missing(target[c]) /\ ~WaitsForGap(c)
          /\ Put(target[c], "pending", 0)
    /\ End(c, "error")
    /\ UNCHANGED <<seen, left, saved, callVars>>

\* The next statement of the call has to wait for a connection.
WaitsForConnection(c) ==
    \/ pc[c] \in {"load", "lock"} /\ PoolFull(SessionOf(c, 0))
    \/ pc[c] = "operators" /\ left[c] > 0 /\ PoolFull(SessionOf(c, 1))

\* pool_timeout: the wait for a connection raises.
PoolTimesOut(c) ==
    /\ WaitsForConnection(c)
    /\ End(c, "error")
    /\ UNCHANGED <<rowVars, seen, left, saved, callVars, faults>>

Step(c) ==
    \/ LoadTask(c) \/ LoadFindsNothing(c) \/ LoadReturns(c)
    \/ FetchOperator(c) \/ CloseOperator(c)
    \/ TakeConnection(c) \/ SelectForUpdate(c) \/ SelectFindsStale(c)
    \/ SelectFindsNothing(c) \/ Commit(c) \/ Insert(c) \/ InsertRefused(c)
    \/ SaveReturns(c) \/ DeadlockVictim(c)

Terminating ==
    /\ \A c \in Clients : pc[c] = "idle" /\ calls[c] = MaxCalls
    /\ UNCHANGED vars

Next ==
    \/ \E c \in Clients :
        \/ \E t \in Tasks : Submit(c, t) \/ Control(c, t) \/ Update(c, t)
        \/ Step(c) \/ DatabaseRaises(c) \/ PoolTimesOut(c)
    \/ Terminating

Spec == Init /\ [][Next]_vars

\* The event loop and the database go on with every call that can go on; the
\* pool's own timeout is not needed for that.
FairSpec == Spec /\ \A c \in Clients : WF_vars(Step(c))

-----------------------------------------------------------------------------
(* Properties *)

Places == {"idle", "load", "operators", "fetched", "lock", "select", "write",
           "insert"}

TypeOK ==
    /\ DbTypeOK
    /\ status \in [Tasks -> {"absent", "pending"} \cup Updates]
    /\ version \in [Tasks -> Nat]
    /\ writes \in [Tasks -> Nat]
    /\ pc \in [Clients -> Places]
    /\ op \in [Clients -> Controls \cup Updates \cup {"submit"}]
    /\ target \in [Clients -> Tasks]
    /\ seen \in [Clients -> Nat]
    /\ left \in [Clients -> Nat]
    /\ saved \in [Clients -> {"nothing", "inserted", "merged"}]
    /\ outcome \in [Clients -> {"none", "ok", "error", "conflict"}]
    /\ calls \in [Clients -> 0 .. MaxCalls]
    /\ faults \in 0 .. MaxFaults

\* No write is lost: the version counts the committed updates of a row, those
\* that compute it in Python (save) and in SQL (update_task_status) together.
VersionCountsWrites == \A t \in Tasks : version[t] = writes[t]

\* A call that has ended, however it did, leaves neither a connection of the
\* pool nor a lock behind.
IdleHoldsNothing ==
    \A c \in Clients, d \in {0, 1} : pc[c] = "idle" =>
        /\ SessionOf(c, d) \notin conn
        /\ \A r \in Rows : /\ lockedBy[r] # SessionOf(c, d)
                            /\ <<SessionOf(c, d), r>> \notin gaps

\* save refuses only what is out of date: a row that has been written since
\* the Task was loaded, or inserted since the Task was built.
ConflictIsReal ==
    \A c \in Clients : outcome[c] = "conflict" =>
        \/ version[target[c]] > seen[c]
        \/ op[c] = "submit" /\ ~Missing(target[c])

\* Nothing but first saves can deadlock.  Whoever holds what a call waits for
\* goes on itself, or waits for a row on a call that goes on, or wants to insert
\* into a gap of MySQL's index that another first save keeps for its own insert,
\* which the database puts an end to.
WaitsForRow(c) ==
    /\ pc[c] = "select" /\ ~Missing(target[c])
    /\ lockedBy[target[c]] \notin {Nobody, SessionOf(c, 0)}

Waits(c) == WaitsForConnection(c) \/ WaitsForRow(c) \/ WaitsForGap(c)

Blocks(d, c) ==
    \E s \in {SessionOf(d, 0), SessionOf(d, 1)} :
        \/ WaitsForConnection(c) /\ s \in conn
        \/ WaitsForRow(c) /\ lockedBy[target[c]] = s
        \/ /\ WaitsForGap(c) /\ s # SessionOf(c, 0)
           /\ \E r \in Tasks : <<s, r>> \in gaps /\ SameGap(r, target[c])

GoesOn(c) == pc[c] # "idle" /\ ~Waits(c)

InsertDeadlock(c) ==
    /\ engine = "mysql" /\ op[c] = "submit"
    /\ \E d \in Clients : op[d] = "submit" /\ Blocks(c, d) /\ Blocks(d, c)

OnlyInsertsDeadlock ==
    \A c \in Clients : Waits(c) =>
        /\ \E d \in Clients : Blocks(d, c)
        /\ \A d \in Clients : Blocks(d, c) =>
              \/ GoesOn(d)
              \/ \E e \in Clients : Blocks(e, d) /\ GoesOn(e)
              \/ InsertDeadlock(d)

\* No call loops: the steps it may still take are bounded by the operators of
\* its task, each of its steps uses some of them up, and no step of another
\* call gives any back.
Remaining(c) ==
    LET n == 2 * Operators[target[c]]
        toSave == IF saved[c] = "nothing" THEN n + 4 ELSE 0
    IN  CASE pc[c] = "idle"                -> 0
          [] pc[c] \in {"write", "insert"} -> n + 2
          [] pc[c] = "select"              -> n + 3
          [] pc[c] = "lock"                -> n + 4
          [] pc[c] = "fetched"             -> toSave + 2 * left[c]
          [] pc[c] = "operators"           -> toSave + 2 * left[c] + 1
          [] pc[c] = "load"                -> 2 * n + 6

CallsRunOut ==
    [][\A c \in Clients : pc[c] # "idle" =>
          \/ Remaining(c)' < Remaining(c)
          \/ /\ Remaining(c)' = Remaining(c)
             /\ pc'[c] = pc[c] /\ left'[c] = left[c] /\ outcome'[c] = outcome[c]]_vars

\* The engine and the scheduler implement a table whose saves compare and
\* set atomically, although save compares and writes in two statements.
Row == INSTANCE VersionedRow WITH based <- seen

RowSpec == Row!Spec

\* Every call ends although calls hold their connection while they wait for a
\* row or to insert one and load operators inside a load: none waits for the
\* pool while it holds a connection, the holder of a row's lock always has one,
\* and the database aborts one of two inserts that wait for each other.
EveryCallEnds == \A c \in Clients : (pc[c] # "idle") ~> (pc[c] = "idle")

-----------------------------------------------------------------------------
(* What the repository says of itself and the code does not do *)

\* "Cancel a scheduled task: stop its schedule, update its status": when the
\* save of a cancel_task commits, the row is CANCELLED (engine.py).
CancelUpdatesStatus ==
    [][\A c \in Clients :
          op[c] = "cancelled" /\ saved[c] = "nothing" /\ saved'[c] = "merged"
              => status'[target[c]] = "cancelled"]_vars
=============================================================================
