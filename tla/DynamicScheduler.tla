------------------------- MODULE DynamicScheduler ---------------------------
(***************************************************************************)
(* scheduling/dynamic_scheduler.py with the two classes around it: the      *)
(* TaskEngine.submit_task that calls it and the WorkflowRegistrar and       *)
(* Temporal client it calls.  The container makes the engine, with its      *)
(* scheduler and the scheduler's registrar, anew for each request, so a     *)
(* process may have several schedulers; they share its one                  *)
(* ConcurrencyController.  The coroutine of a task t is submit_task(t); a   *)
(* recoverer runs recover_cluster_state.                                    *)
(*                                                                          *)
(* More places a coroutine is suspended at:                                 *)
(*   idle      not called yet          saved   storage.save is returning    *)
(*   load      _get_task_with_retry    next    about to read the attempts   *)
(*   start     client.start_workflow   giveup  the final status update      *)
(*   pick      head of the recovery loop                                    *)
(*   done, failed (an exception left submit_task), dead (process crashed)   *)
(***************************************************************************)
EXTENDS ConcurrencyController

CONSTANTS Schedulers,  \* the DynamicScheduler objects
          SchedulerOf, \* the one each task is submitted to
          Retries,     \* scheduler_config.max_retries of each task
          Translatable,\* the tasks translate makes a workflow class of
          Configured,  \* those whose class has the __workflow_config__ of register
          MaxFaults,   \* bound: external calls that raise
          MaxCrashes,  \* bound: process crashes
          MaxShutdowns \* bound: workers a signal shuts down

ASSUME SchedulerAssumption ==
    /\ SchedulerOf \in [Tasks -> Schedulers]
    /\ \A t, u \in Tasks :
          SchedulerOf[t] = SchedulerOf[u] => ProcOf[t] = ProcOf[u]
    /\ Translatable \cup Configured \subseteq Tasks
    /\ Retries \in [Tasks -> Nat]
    /\ MaxFaults \in Nat
    /\ MaxCrashes \in Nat
    /\ MaxShutdowns \in Nat

VARIABLES maxRetries,  \* DynamicScheduler.max_retries
          limit,       \* range(self.max_retries + 1) of each task's loop
          ran,         \* has _execute_workflow returned in this attempt
          workers,     \* WorkflowRegistrar.workers: the queues with a worker
          starts,      \* executions the Temporal server has begun, per task
          todo,        \* what is left of a recoverer's wait_tasks
          faults, crashes,
          shutdowns    \* workers the signal handler has taken out of workers

schedVars == <<maxRetries, limit, ran, workers, starts, todo>>

vars == <<ctlVars, schedVars, faults, crashes, shutdowns>>

DefaultRetries == 3

Init ==
    /\ CtlInit
    /\ maxRetries = [s \in Schedulers |-> DefaultRetries]
    /\ limit = [t \in Tasks |-> 0]
    /\ ran = [t \in Tasks |-> FALSE]
    /\ workers = [s \in Schedulers |-> {}]
    /\ starts = [t \in Tasks |-> 0]
    /\ todo = [r \in Recoverers |-> {}]
    /\ faults = 0
    /\ crashes = 0
    /\ shutdowns = 0

\* One external call raises.
Fault ==
    /\ faults < MaxFaults
    /\ faults' = faults + 1
    /\ UNCHANGED <<crashes, shutdowns>>

NoFault == UNCHANGED <<faults, crashes, shutdowns>>

-----------------------------------------------------------------------------
(* TaskEngine.submit_task, up to the call of schedule_task *)

SubmitTask(t) ==
    /\ pc[t] = "idle"
    /\ InsertRow(t)
    /\ Goto(t, "saved")
    /\ UNCHANGED <<target, calls, lockQ, pending, schedVars>>

\* save raises: nothing was inserted, or the row was and reading the saved
\* task back (its operators are loaded again) failed.
SubmitFails(t) ==
    /\ pc[t] = "idle"
    /\ InsertRow(t) \/ UNCHANGED status
    /\ Goto(t, "failed")
    /\ UNCHANGED <<target, calls, lockQ, pending, schedVars>>

\* add_job overwrites the field all jobs of the scheduler share.
AddJob(t) ==
    /\ pc[t] = "saved"
    /\ maxRetries' = [maxRetries EXCEPT ![SchedulerOf[t]] = Retries[t]]
    /\ Goto(t, "load")
    /\ UNCHANGED <<status, target, calls, lockQ, pending>>
    /\ UNCHANGED <<limit, ran, workers, starts, todo>>

-----------------------------------------------------------------------------
(* schedule_task *)

\* The loop's range is built, from the shared field, once the load is over.
GetTaskWithRetry(t) ==
    /\ pc[t] = "load"
    /\ limit' = [limit EXCEPT ![t] = maxRetries[SchedulerOf[t]] + 1]
    /\ Goto(t, "next")
    /\ UNCHANGED <<status, target, calls, lockQ, pending>>
    /\ UNCHANGED <<maxRetries, ran, workers, starts, todo>>

\* All three loads raised.
GetTaskFails(t) ==
    /\ pc[t] = "load"
    /\ Goto(t, "failed")
    /\ UNCHANGED <<status, target, calls, lockQ, pending, schedVars>>

\* The head of the attempt loop: first entry, acquire_slot refused (after the
\* backoff), an exception caught, or _execute_workflow raised and the finally
\* clause has released the slot.
AtLoopHead(t) ==
    \/ pc[t] \in {"next", "refused", "raised"}
    \/ pc[t] = "freed" /\ ~ran[t]

\* A faulty variant: one attempt too many.
NextAttemptOffByOne(t) ==
    /\ AtLoopHead(t)
    /\ calls[t] <= limit[t]
    /\ CallAcquire(t, t)
    /\ UNCHANGED <<status, schedVars>>

NextAttempt(t) ==
    /\ AtLoopHead(t)
    /\ calls[t] < limit[t]
    /\ CallAcquire(t, t)
    /\ UNCHANGED <<status, schedVars>>

AttemptsOver(t) ==
    /\ AtLoopHead(t)
    /\ calls[t] >= limit[t]
    /\ Goto(t, "giveup")
    /\ UNCHANGED <<status, target, calls, lockQ, pending, schedVars>>

\* return await self._execute_workflow(task), its finally clause over; add_job
\* and submit_task return.
Return(t) ==
    /\ pc[t] = "freed" /\ ran[t]
    /\ Goto(t, "done")
    /\ UNCHANGED <<status, target, calls, lockQ, pending, schedVars>>

GiveUp(t) ==
    /\ pc[t] = "giveup"
    /\ UpdateTaskStatus(t, "pending")
    /\ Goto(t, "done")
    /\ UNCHANGED <<target, calls, lockQ, pending, schedVars>>

GiveUpFails(t) ==
    /\ pc[t] = "giveup"
    /\ UpdateTaskStatusRaises(t, "pending")
    /\ Goto(t, "failed")
    /\ UNCHANGED <<target, calls, lockQ, pending, schedVars>>

-----------------------------------------------------------------------------
(* _execute_workflow *)

\* A faulty variant: no finally clause.
LeaveForgetsRelease(t, ok) ==
    /\ ran' = [ran EXCEPT ![t] = ok]
    /\ Goto(t, "freed")
    /\ UNCHANGED <<status, target, calls, lockQ, pending>>
    /\ UNCHANGED <<maxRetries, limit, todo>>

\* The finally clause: whatever the outcome, release_slot is called.
Leave(t, ok) ==
    /\ ran' = [ran EXCEPT ![t] = ok]
    /\ CallRelease(t)
    /\ UNCHANGED <<status, maxRetries, limit, todo>>

\* translate raises, for every attempt of the task: _create_activity refuses an
\* operator type, or workflow.defn the class, which has no run method yet.
TranslateFails(t) ==
    /\ pc[t] = "granted"
    /\ t \notin Translatable
    /\ Leave(t, FALSE)
    /\ UNCHANGED <<workers, starts>>

\* The queue already has a worker in the scheduler's registrar.
HasWorker(t) == QueueOf[t] \in workers[SchedulerOf[t]]

\* A faulty variant: register called with override=True.
RegisterOverriding(t) ==
    /\ pc[t] = "granted"
    /\ t \in Translatable \cap Configured
    /\ workers' = [workers EXCEPT ![SchedulerOf[t]] = @ \cup {QueueOf[t]}]
    /\ Goto(t, "start")
    /\ UNCHANGED <<status, target, calls, lockQ, pending>>
    /\ UNCHANGED <<maxRetries, limit, ran, starts, todo>>

\* translate and registrar.register: the queue's worker is created.
RegisterWorkflow(t) ==
    /\ pc[t] = "granted"
    /\ t \in Translatable \cap Configured
    /\ ~HasWorker(t)
    /\ workers' = [workers EXCEPT ![SchedulerOf[t]] = @ \cup {QueueOf[t]}]
    /\ Goto(t, "start")
    /\ UNCHANGED <<status, target, calls, lockQ, pending>>
    /\ UNCHANGED <<maxRetries, limit, ran, starts, todo>>

\* register raises: its class has no __workflow_config__, or "Worker for queue
\* ... already exists".
RegisterRefused(t) ==
    /\ pc[t] = "granted"
    /\ t \in Translatable
    /\ t \notin Configured \/ HasWorker(t)
    /\ Leave(t, FALSE)
    /\ UNCHANGED <<workers, starts>>

\* The Worker constructor raises.
WorkerFails(t) ==
    /\ pc[t] = "granted"
    /\ t \in Translatable \cap Configured
    /\ ~HasWorker(t)
    /\ Leave(t, FALSE)
    /\ UNCHANGED <<workers, starts>>

\* What the server does with a start for the workflow id str(task.id): begin
\* an execution, or refuse while an earlier one is open.
StartOutcomes(t) == IF starts[t] = 0 THEN {1} ELSE {starts[t], starts[t] + 1}

\* start_workflow returned, or WorkflowAlreadyStartedError was swallowed.
StartWorkflow(t) ==
    /\ pc[t] = "start"
    /\ \E n \in StartOutcomes(t) : starts' = [starts EXCEPT ![t] = n]
    /\ Leave(t, TRUE)
    /\ UNCHANGED workers

\* A faulty variant: every exception of start_workflow is swallowed.
StartFailsSwallowed(t) ==
    /\ pc[t] = "start"
    /\ \E n \in StartOutcomes(t) \cup {starts[t]} :
          starts' = [starts EXCEPT ![t] = n]
    /\ Leave(t, TRUE)
    /\ UNCHANGED workers

\* start_workflow raised: the request was lost, or only its answer was.
StartFails(t) ==
    /\ pc[t] = "start"
    /\ \E n \in StartOutcomes(t) \cup {starts[t]} :
          starts' = [starts EXCEPT ![t] = n]
    /\ Leave(t, FALSE)
    /\ UNCHANGED workers

-----------------------------------------------------------------------------
(* recover_cluster_state *)

\* get_by_status; of what it returns only the PENDING tasks are acted on.
StartRecovery(r) ==
    /\ pc[r] = "idle"
    /\ todo' = [todo EXCEPT ![r] = GetByStatus({"pending"})]
    /\ Goto(r, "pick")
    /\ UNCHANGED <<status, target, calls, lockQ, pending>>
    /\ UNCHANGED <<maxRetries, limit, ran, workers, starts>>

\* Loading the tasks raised.
RecoveryLoadFails(r) ==
    /\ pc[r] = "idle"
    /\ Goto(r, "failed")
    /\ UNCHANGED <<status, target, calls, lockQ, pending, schedVars>>

AtRecoveryLoop(r) == pc[r] \in {"pick", "granted", "refused"}

RecoverTask(r) ==
    /\ AtRecoveryLoop(r)
    /\ \E t \in todo[r] :
          /\ todo' = [todo EXCEPT ![r] = @ \ {t}]
          /\ CallAcquire(r, t)
    /\ UNCHANGED <<status, maxRetries, limit, ran, workers, starts>>

RecoveryOver(r) ==
    /\ AtRecoveryLoop(r)
    /\ todo[r] = {}
    /\ Goto(r, "done")
    /\ UNCHANGED <<status, target, calls, lockQ, pending, schedVars>>

\* An exception of acquire_slot ends the whole recovery.
RecoveryRaises(r) ==
    /\ pc[r] = "raised"
    /\ Goto(r, "failed")
    /\ UNCHANGED <<status, target, calls, lockQ, pending, schedVars>>

-----------------------------------------------------------------------------
(* A process dies: its memory is gone, the table and the Temporal server      *)
(* stay.  It starts again at once, with empty objects, and can be called.     *)

Final == {"done", "failed", "dead"}

SchedulersIn(p) == {SchedulerOf[t] : t \in {u \in Tasks : ProcOf[u] = p}}

Crash(p) ==
    /\ crashes < MaxCrashes
    /\ crashes' = crashes + 1
    /\ pc' = [c \in Coros |-> IF ProcOf[c] = p /\ pc[c] \notin Final \cup {"idle"}
                              THEN "dead" ELSE pc[c]]
    /\ lockQ' = [k \in Locks |-> IF k[1] = p THEN <<>> ELSE lockQ[k]]
    /\ pending' = [k \in Locks |-> IF k[1] = p THEN {} ELSE pending[k]]
    /\ workers' = [s \in Schedulers |-> IF s \in SchedulersIn(p) THEN {}
                                       ELSE workers[s]]
    /\ maxRetries' = [s \in Schedulers |->
                         IF s \in SchedulersIn(p) THEN DefaultRetries
                         ELSE maxRetries[s]]
    /\ UNCHANGED <<status, target, calls, limit, ran, starts, todo>>
    /\ UNCHANGED <<faults, shutdowns>>

-----------------------------------------------------------------------------
(* SIGINT and SIGTERM: the handler of a registrar shuts its workers down and  *)
(* leaves the process, with every submit_task in it, running.  asyncio.gather *)
(* starts one _shutdown_worker per queue, which first takes the queue out of  *)
(* workers; nothing later in it is seen by register.  The handler is the one  *)
(* of the process's newest registrar: here it is any of them.                 *)

ShutdownWorker(s, q) ==
    /\ shutdowns < MaxShutdowns
    /\ q \in workers[s]
    /\ workers' = [workers EXCEPT ![s] = @ \ {q}]
    /\ shutdowns' = shutdowns + 1
    /\ UNCHANGED <<ctlVars, maxRetries, limit, ran, starts, todo>>
    /\ UNCHANGED <<faults, crashes>>

Shutdown == \E s \in Schedulers, q \in Queues : ShutdownWorker(s, q)

-----------------------------------------------------------------------------
TaskStep(t) ==
    \/ AddJob(t)
    \/ GetTaskWithRetry(t)
    \/ NextAttempt(t)
    \/ AttemptsOver(t)
    \/ Return(t)
    \/ GiveUp(t)
    \/ TranslateFails(t)
    \/ RegisterWorkflow(t)
    \/ RegisterRefused(t)
    \/ StartWorkflow(t)

TaskFault(t) ==
    \/ SubmitFails(t)
    \/ GetTaskFails(t)
    \/ GiveUpFails(t)
    \/ WorkerFails(t)
    \/ StartFails(t)

RecoveryStep(r) ==
    \/ RecoverTask(r)
    \/ RecoveryOver(r)
    \/ RecoveryRaises(r)

\* What the event loop runs for a coroutine once it has been called.
Step(c) ==
    /\ \/ ControllerStep(c) /\ UNCHANGED schedVars
       \/ c \in Tasks /\ TaskStep(c)
       \/ c \in Recoverers /\ RecoveryStep(c)
    /\ NoFault

CallStep(c) ==
    /\ \/ c \in Tasks /\ SubmitTask(c)
       \/ c \in Recoverers /\ StartRecovery(c)
    /\ NoFault

FaultStep(c) ==
    /\ \/ StorageFails(c) /\ UNCHANGED schedVars
       \/ c \in Tasks /\ TaskFault(c)
       \/ c \in Recoverers /\ RecoveryLoadFails(c)
    /\ Fault

\* Every call has ended: the application may stop here.
Terminating ==
    /\ \A c \in Coros : pc[c] \in Final
    /\ UNCHANGED vars

Next ==
    \/ \E c \in Coros : Step(c) \/ CallStep(c) \/ FaultStep(c)
    \/ \E p \in Procs : Crash(p)
    \/ Shutdown
    \/ Terminating

Spec == Init /\ [][Next]_vars

\* The event loop goes on running every coroutine that can go on, timers
\* included; nothing makes a caller submit, a call raise or a process die.
FairSpec == Spec /\ \A c \in Coros : WF_vars(Step(c))

-----------------------------------------------------------------------------
(* Properties *)

Places == InLock \cup Final \cup
          {"idle", "saved", "load", "next", "granted", "refused", "raised",
           "freed", "start", "giveup", "pick"}

TypeOK ==
    /\ TableTypeOK
    /\ pc \in [Coros -> Places]
    /\ target \in [Coros -> Tasks]
    /\ calls \in [Coros -> Nat]
    /\ lockQ \in [Locks -> Seq(Coros)]
    /\ pending \in [Locks -> SUBSET (Tasks \X (Coros \X Nat))]
    /\ maxRetries \in [Schedulers -> Nat]
    /\ limit \in [Tasks -> Nat]
    /\ ran \in [Tasks -> BOOLEAN]
    /\ workers \in [Schedulers -> SUBSET Queues]
    /\ starts \in [Tasks -> Nat]
    /\ todo \in [Recoverers -> SUBSET Tasks]
    /\ faults \in 0 .. MaxFaults
    /\ crashes \in 0 .. MaxCrashes
    /\ shutdowns \in 0 .. MaxShutdowns

\* A queue lends at most one slot more than configured for each process
\* beyond the first: a controller counts and grants under its own lock, but
\* no lock covers the count and the grant of two processes.  A queue without
\* a configuration row lends none.
SlotCap(q) ==
    IF q \in QueueRows THEN MaxConcurrent[q] + Cardinality(Procs) - 1 ELSE 0

OvercommitBounded ==
    \A q \in Queues : GetConcurrency(q) <= SlotCap(q)

\* No recovery has asked for a slot yet.
NothingRecovered == \A r \in Recoverers : calls[r] = 0

\* Until a recovery asks for slots, a RUNNING row belongs to the attempt that
\* is between its grant and its release, unless a call raised or a process
\* died; and even then never to a submit_task that has returned.
SlotHasOwner ==
    NothingRecovered =>
        \A t \in Tasks : status[t] = "running" =>
            \/ pc[t] \in {"granted", "start", "release"}
            \/ /\ faults + crashes > 0
               /\ pc[t] \notin {"idle", "saved", "load", "next", "refused",
                                "freed", "done"}

\* Until a recovery asks for slots, the task of a submit_task that has returned
\* normally is RELEASED only if Temporal has begun its workflow, and PENDING
\* otherwise; with no call that raised, PENDING also means nothing was begun.
OutcomeRecorded ==
    NothingRecovered =>
        \A t \in Tasks : pc[t] = "done" =>
            \/ status[t] = "released" /\ starts[t] > 0
            \/ status[t] = "pending" /\ (faults = 0 => starts[t] = 0)

\* A registrar never replaces a queue's worker.  So a scheduler starts one
\* workflow per queue, and one more for each crash and each worker a signal
\* has shut down, however many tasks, attempts and lost answers there are; a
\* task is started again only if a call raised and its worker was shut down.
StartedOn(s, q) ==
    {t \in Tasks : SchedulerOf[t] = s /\ QueueOf[t] = q /\ starts[t] > 0}

StartsBounded ==
    /\ \A t \in Tasks : starts[t] <= 1 + shutdowns /\ starts[t] <= 1 + faults
    /\ \A s \in Schedulers, q \in Queues :
          Cardinality(StartedOn(s, q)) <= 1 + crashes + shutdowns

\* A task makes no more attempts than the budget of some job of its scheduler:
\* its own unless another add_job came between its add_job and its load.
AttemptsWithinABudget ==
    \A t \in Tasks : calls[t] > 0 =>
        \E u \in Tasks :
            SchedulerOf[u] = SchedulerOf[t] /\ calls[t] <= Retries[u] + 1

\* No release ever wakes a waiter: the waiter holds the lock release_slot
\* needs, so a wait ends in a timeout or with the process.
WaitOnlyExpires ==
    [][\A c \in Coros : pc[c] = "waiting" =>
          pc'[c] \in {"waiting", "expired", "dead"}]_vars

\* No lock is lost: who needs a queue's lock stands in the line for it, and at
\* the head of the line is always a coroutine that can go on without anybody's
\* help, its wait timed and the row it updates there.
CanGoOn(c) ==
    /\ pc[c] \in InLock \ {"retry"}
    /\ pc[c] \in {"granting", "expired", "release"} => status[target[c]] # "absent"

LocksMoveOn ==
    /\ \A c \in Coros : pc[c] \in InLock =>
          \E i \in 1 .. Len(lockQ[Slot(c)]) : lockQ[Slot(c)][i] = c
    /\ \A k \in Locks : lockQ[k] # <<>> =>
          LET head == Head(lockQ[k]) IN Slot(head) = k /\ CanGoOn(head)

\* No call loops: from the moment its loop's range is built, or the list to
\* recover is read, each step of a call uses up some of a budget that no step
\* of another call, no exception and no crash gives back.
Turns(c) ==
    IF c \in Recoverers THEN Cardinality(todo[c])
    ELSE IF calls[c] < limit[c] THEN limit[c] - calls[c] ELSE 0

StepsOfTurn(place) ==
    CASE place \in Final                                         -> 0
      [] place = "giveup"                                        -> 1
      [] place \in {"next", "pick", "refused", "raised", "freed"} -> 2
      [] place = "release"                                       -> 3
      [] place \in {"start", "record"}                           -> 4
      [] place \in {"granted", "expired", "retry"}               -> 5
      [] place \in {"granting", "waiting"}                       -> 6
      [] place = "acquire"                                       -> 7

StepsLeft(c) == 8 * Turns(c) + StepsOfTurn(pc[c])

CallsRunOut ==
    [][\A c \in Coros : pc[c] \notin {"idle", "saved", "load"} =>
          \/ StepsLeft(c)' < StepsLeft(c)
          \/ StepsLeft(c)' = StepsLeft(c) /\ pc'[c] = pc[c]]_vars

\* The controllers implement a pool of slots whose capacity is the configured
\* one, plus one per additional process.
Pool == INSTANCE SlotPool
            WITH held <- GetByStatus({"running"}),
                 Cap <- [q \in Queues |-> SlotCap(q)]

PoolSpec == Pool!Spec

\* Every call that has begun ends: the wait that keeps the lock, the lock's
\* queue and the attempts all run out.
EveryCallEnds ==
    \A c \in Coros : (pc[c] # "idle") ~> (pc[c] \in Final)

\* Without a recovery, a slot that was granted is given back unless a call
\* raises or a process dies, although the release queues behind waiters.
SlotGivenBack ==
    Recoverers = {} =>
        \A t \in Tasks : (status[t] = "running") ~>
                            (status[t] # "running" \/ faults + crashes > 0)

-----------------------------------------------------------------------------
(* What the repository says of itself and the code does not do *)

\* "Maximum concurrency": no more tasks of a queue are RUNNING than its row
\* allows (persistence/adapters/my_queue.py, max_concurrent).
CapRespected ==
    \A q \in QueueRows : GetConcurrency(q) <= MaxConcurrent[q]

\* "Cluster state recovery": a slot whose holder died with its process is
\* taken back once a recovery has run (dynamic_scheduler.py,
\* recover_cluster_state).
RecoveryReclaimsSlots ==
    \A t \in Tasks, r \in Recoverers :
        (pc[r] = "idle" /\ pc[t] = "dead" /\ status[t] = "running")
        ~> (status[t] # "running")

\* The recovery is called, sooner or later.
RecoverySpec ==
    FairSpec /\ \A r \in Recoverers : WF_vars(StartRecovery(r) /\ NoFault)
=============================================================================
