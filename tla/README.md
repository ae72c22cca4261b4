# Verification of flow-task

flow-task stores workflows of operators as tasks in a SQL database, lends each
task a concurrency slot of its queue, and starts its workflow on a Temporal
server. This directory holds TLA+ modules for the parts of it that carry state,
TLC configurations that check them on small instances, and theorems that TLAPS
checks for every instance. Paths below are relative to `src/`.

    tlc -workers 2 -config OneProcess.cfg MCOneProcess.tla    # one run
    tlapm Submission_proofs.tla                               # one file of proofs

`PROJECT.json` names every run, the source lines of every definition, the faulty
variant each property was seen to reject, the theorems, and the hazards the
properties cover.

## 1. The system

| Part | State it keeps | Operations | Talks to |
|---|---|---|---|
| `TaskEngine` (app/engine.py) | none | `submit_task`, `cancel_task`, `pause_task`, `resume_task` | TaskStorage, DynamicScheduler |
| `DynamicScheduler` (app/scheduling/dynamic_scheduler.py) | `max_retries`, `retry_interval`, `timeout`, shared by all its jobs | `add_job`, `schedule_task`, `recover_cluster_state` | storage, controller, translator, registrar, Temporal client |
| `ConcurrencyController` (app/scheduling/concurrency.py) | one `asyncio.Lock` and one pending set per queue; one per process | `acquire_slot`, `release_slot`, `_handle_timeout`, `_retry_acquire` | TaskStorage, QueueStorage |
| `TaskStorage`, `QueueStorage` (app/persistence/adapters) | tables `tasks`, `task_queues`, shared by all processes | `save`, `load`, `update_task_status`, `get_concurrency`, `get_by_status`, `record_retry_attempt` | database |
| `Database` (app/core/database.py) | engine, connection pool, one session per coroutine | `get_session` | SQL server |
| `WorkflowTranslator` | activity cache, a dependency dictionary | `translate` | operators |
| `WorkflowRegistrar` | registries, `workers` per queue, signal handlers | `register`, `register_workflow`, `register_activity`, `deregister`, `shutdown`, `_restart_worker` | Temporal |
| `WorkflowBuilder`, `Stage`, `DAG` | stages, a mirror of their dependencies as a graph | `stage`, `add_operator`, `build` | none |
| `OperatorRegistry`, `OperatorStorage` | a cache per process, table `operators` | `register_function`, `register_api`, `initialize`, `get_operator`, `delete` | database |
| `APIOperator` (app/plugins/operators/registry.py) | a clock and a job id during a call | `execute`: request, then poll | HTTP service |
| `TaskBuilder`, containers, settings, `main.py` | configuration | setters, wiring | all of the above |

`submit_task` is the main path: insert the row, `add_job`, load the task again,
then up to `max_retries + 1` attempts of *acquire a slot, translate, register,
start the Temporal workflow, release the slot*; when they are used up the row
goes back to PENDING. Everything is `asyncio`: within a process, coroutines
interleave at every `await`; several processes share the database. A slot is
nothing but a row whose status is RUNNING.

What makes this hard, and what correctness means:

* **Slots.** The count of RUNNING rows and the write of RUNNING are separate
  transactions under a lock that other processes do not have. The limit must
  hold as far as that lock reaches, a slot must have an owner who will give it
  back, and it must be given back after every exception.
* **Waiting.** `acquire_slot` waits while it holds the lock that the waker
  needs. Nothing may be blocked for ever by it.
* **Attempts.** Every external call may raise, and may raise although it took
  effect. A workflow must not be started twice, the number of attempts must be
  bounded, and the row must tell what happened.
* **Crashes and recovery.** Rows outlive the process that owns them.
* **Versions.** `save` compares a version in Python that `update_task_status`
  counts in SQL; control calls and status updates meet on one row. No write may
  be lost, and a refusal must have a reason.
* **Sessions.** Storage calls nest; what they hold (a connection, a row lock)
  must neither outlive the call, by whatever exception it ends, nor block it.
* **Workers.** Restarts are fire-and-forget and await inside: two of them
  overlap. The worker in the end must serve what is registered, and none may be
  stopped twice or left running unknown.
* **Polling.** A deadline looked at only between polls, a server that is slow.
* **Plans.** Layers must respect dependencies however, and in whatever order,
  they were declared, and a cycle must be refused.
* **Registration.** Several processes may register one operator name at once,
  or delete it meanwhile; load and save are two transactions.

## 2. Modules

| Module | Models | State |
|---|---|---|
| `TaskTable` | the task and queue rows, one operator per transaction | `status` |
| `ConcurrencyController` (extends TaskTable) | the controllers of all processes, each `await` a step | `pc`, `target`, `calls`, `lockQ`, `pending` |
| `DynamicScheduler` (extends ConcurrencyController) | submission, attempts, registration, start, recovery, crashes, signals | `maxRetries`, `limit`, `ran`, `workers`, `starts`, `todo`, `faults`, `crashes`, `shutdowns` |
| `SlotPool` | abstract specification: who holds a slot of which queue | `held` |
| `Database` | sessions, the pool's connections, row and gap locks | `engine`, `conn`, `lockedBy`, `gaps` |
| `VersionedRow` | abstract specification: rows whose saves compare and set | `status`, `version`, `based` |
| `TaskControl` (extends Database) | `submit_task`, control calls and status updates on rows with versions | `status`, `version`, `pc`, `op`, `target`, `seen`, `left`, `saved`, `outcome`, `writes`, ... |
| `WorkerRegistry` | the registrars of a process and their workers on a queue | `registry`, `tracked`, `served`, `running`, `pc`, `old`, `handler`, ... |
| `AsyncPolling` | one `APIOperator.execute`, its clock, and the server | `config`, `now`, `started`, `pc`, `left`, `waits`, `job`, `reply`, `outcome` |
| `DAG` | the graph and its layered sort as a state machine | `nodes`, `graph`, `inDegree`; `deg`, `now`, `next`, `layer`, `layers` |
| `WorkflowBuilder` (extends DAG) | stages, `add_operator`, `build` | `stages`, `operators`, `dependencies`, `outcome`, `workflow`, ... |
| `OperatorRegistry` | the operators table and the cache of each process | `rows`, `operators`, `pc`, `existing`, ... |
| `*_proofs` | theorems and proofs about the module of that name; `Submission_proofs` and `Progress_proofs` hold further ones about `DynamicScheduler` | |
| `MC*` | values for the constants of a run | |

Each module has one action per operation or per stretch of a coroutine between
two awaits that matter. An operator marked "a faulty variant" is no part of the
model: it is the form of the next definition with a plausible bug, which the
property named with it in `PROJECT.json` rejects.

### The scheduler

A coroutine is a task (its `submit_task`) or a recoverer (its
`recover_cluster_state`), and `pc[c]` names the `await` it is suspended at. One
action is the code from one `await` that matters to the next: what happens
between two database calls of one coroutine is invisible to the others and
belongs to the action. `lockQ` is the `asyncio.Lock` of a process and queue,
with its holder at the head and its waiters behind it in order, since
`asyncio.Lock` is fair; `pending` is `self.pending_tasks`, a set of pairs
(task id, event), and the event of a wait is the pair of the coroutine and the
number of its call. `GrantSlot`, `HandleTimeout`, `ReleaseSlot` and so on are
the continuations after the database call they are named for.

The container builds the engine, and with it a scheduler and a registrar, anew
for each request but one controller for the process. So `SchedulerOf` gives each
task its scheduler, several of which may live in a process.

Abstractions, each of which only adds behaviours unless said otherwise:

* A row is its status. `version` is read back only by `TaskStorage.save`, which
  the scheduler calls only for the insert (`TaskControl` has it), and `retries`
  only yields a date nothing reads.
* Counting the RUNNING rows and loading the queue's row are one step: the queue
  row never changes, so only the moment of the count matters. The status write
  is a later step, which is where two processes can overlap.
* A call that raises either had no effect or had its effect and lost the answer.
  `MaxFaults` bounds how many calls raise in a run, `MaxCrashes` how many times
  a process dies. A transaction under way at a crash was committed or was not.
* `record_retry_attempt` uses `jsonb_set`, which the configured MySQL database
  does not have: `RecordRetryAttempt`, part of `ScheduleRetry`, returns or
  raises freely, without using up a fault. Its columns decide nothing.
* The place `retry` (`_retry_acquire`, waiting for a lock its own caller holds)
  has no way out in the code, hence no action. No step reaches it: theorem
  `RetryIsDead`.
* `StartOutcomes`: when a workflow id was used before, the server refuses it
  while the earlier execution is open (which the code swallows) and otherwise
  begins another.
* `Translatable` are the tasks `translate` makes a class of, `Configured` those
  whose class has the `__workflow_config__` that `register` reads. At this commit
  both sets are empty: `workflow.defn` refuses the generated class, which it is
  given before its run method (workflow_translator.py:119), and nothing ever sets
  `__workflow_config__` (workflow_registrar.py:48). Both make the attempt fail
  (`TranslateFails`, `RegisterRefused`). The runs put tasks in both sets so that
  the code behind those calls is checked too, with a task that is not
  translatable in `Shared` and one that is not configured in `Fair`.
* A process that crashed starts again at once with empty objects. Tasks that
  were not yet submitted may be submitted then.
* A queue's worker, here, is there or not: what restarts of it do is
  `WorkerRegistry`, which the scheduler never reaches (it calls `register`
  without `override`, which refuses a queue that has a worker). The handler of
  SIGINT and SIGTERM takes workers out of the registrar while the process goes
  on (`Shutdown`); after that `register` accepts the queue again. `MaxShutdowns`
  bounds how many workers are taken out in a run.

### Rows, versions and sessions

`TaskControl` looks at the same table from the side of `save`: a client is a
coroutine that submits a task, controls one (`cancel_task`, `pause_task` and
`resume_task` differ only in the status they set) or is one of the scheduler's
status updates. Every statement is a step, so two transactions overlap as far as
row locks allow, and the calls share a pool of connections. `Database` gives
what an `async with get_session()` block gives: because the scoped session is
keyed by the running coroutine, a block inside a block is the same session, and
when the inner one closes, the outer one's connection goes back too
(`SessionOf`). `seen` is the version in the Task a call holds; `writes` is a
history variable. Loading a task opens such inner blocks for its operators
(`FetchOperator`, `CloseOperator`).

The locks are those of the database that the settings choose, MySQL or
PostgreSQL (`engine`, open in `Init`). A row that exists is locked on both until
the transaction ends. For a row that does not, MySQL at its default isolation
level REPEATABLE READ locks the gap of the primary key where it would lie
(`LockGap`): several sessions may lock one gap, and an INSERT waits for all
others of them (`WaitsForGap`). Two ids lie in one gap when no row is between
them in the order of the key (`Index`). So two first saves, of one task or of
neighbours, can wait for each other, and MySQL aborts one (error 1213,
`DeadlockVictim`; which one is open), which `save` turns into `RuntimeError`. On
SQLite, which the settings also allow, SQLAlchemy leaves FOR UPDATE out; the
faulty variant `SelectUnlocked` is what then happens to `VersionCountsWrites`. The scheduler and
the control calls are not put into one state space: their only shared state is
the row, and the scheduler's part of it is the `Update` action.

### The registrars

`WorkerRegistry` has one queue, since queues do not meet, and any number of
registrars, since every scheduler makes one. Calls are numbered in the order
they begin, and a worker has the number of the call that launched it. A restart
is up to three steps: created by `create_task`, run up to the await of the old
worker's shutdown, run to its end. `created` grows by constructions, each of
which takes over the process's signal handlers; `overlapped` and `closed` are
history variables. A worker may die (its `run()` raises in a task nobody
awaits), and the constructor may raise.

### Polling

`AsyncPolling` counts seconds. Time passes only while the caller waits (`Tick`),
which is when `left`, what remains of the present wait or pause, runs down. The
server may accept the request, end the job and look at it for an answer at any
time, or never. All configurations of the constants' sets are initial states,
with statuses the configuration names (`known`) or does not.

`requests` limits no request as a whole. Its timeout counts anew for each address
of the host it tries to connect to, for each wait for more bytes of an answer,
and for all of these again after each redirection, which it follows by default.
`waits` numbers these waits of the present request, and `WaitAgain` begins the
next one. The code sets no limit to their number, so that no property can
promise a time that depends on the configuration alone; what is promised depends
on the number of waits the servers caused (`Allowed`). `MaxWaits` bounds it, and
the theorems hold for every value of it. A request that is kept waiting for
ever, some bytes at a time, is outside.

The main and the status request have timeouts of their own; that of the status
request is the poll interval if it is not given (`StatusTimeout`). Nothing checks
any of these values: a timeout of zero is refused by `requests`, which ends the
call with an error, and an interval of zero polls without a pause. The requests
are synchronous, so that the event loop itself stands still meanwhile; a model
of one call does not show that.

### The builder

The calls are synchronous, so only `build` takes several steps, one per name
popped and layer closed. The order of names within a layer, that of a Python
set at first, is left out: `now` is what is left of the first `len(queue)` names
and `next` what was appended behind them. An edge carries a number because a
dependency listed twice is counted twice in `in_degree` and appears twice in
`graph`, and the countdown must still work. A call that raises and changes
nothing is no action.

### The registry

Each client is a process with at most one call under way; a step is a query or a
commit. `InsertUnanswered` is a commit that took effect although the caller sees
an exception; `StorageFails` any call that did not take effect. `SaveUpdates`
always raises: `as_dict` includes `dependencies`, which is no column of the
table, so the UPDATE is never compiled.

## 3. Runs

Bounds are chosen so that every branch of the code is reached (TLC's coverage
shows every action fires over the passing runs).

| Run | Instance | Checks |
|---|---|---|
| `OneProcess` | 1 process, 3 tasks with 2, 2 and 1 attempts, two of them on one slot and one on a queue without a row; one fault, one crash, one worker shut down by a signal | `OutcomeRecorded`, `AttemptsWithinABudget`, `StartsBounded`, `WaitOnlyExpires`, refinement `PoolSpec` |
| `Shared` | 2 processes, 2 tasks, one slot, a recoverer, one fault, one crash, one worker shut down by a signal | `TypeOK`, `SlotHasOwner`, `LocksMoveOn`, `CallsRunOut` |
| `Fair` | 2 processes, 3 tasks on one slot, one fault, `FairSpec` | `OvercommitBounded`, `EveryCallEnds`, `SlotGivenBack` |
| `Control` | 3 coroutines with one call each, 2 tasks, a pool of 2, one fault, MySQL or PostgreSQL, `FairSpec` | `TypeOK`, `VersionCountsWrites`, `IdleHoldsNothing`, `ConflictIsReal`, `OnlyInsertsDeadlock`, `CallsRunOut`, `EveryCallEnds`, refinement `RowSpec` |
| `Workers` | 2 registrars, 4 calls, 2 assets, one fault, `FairSpec` | `TypeOK`, `TrackedIsCurrent`, `OneStopper`, `SerialCallsLeakNothing`, `UnservedMeansRestart`, `AssetsGetServed`, `SignalStopsWorkers` |
| `Polling` | deadlines 0, 1 and 6, intervals 0, 1 and 3, request timeouts 0, 1 and 2 (or none for the status request), 2 waits per request: 432 configurations; `FairSpec` | `TypeOK`, `OverrunBounded`, `TimeoutIsReal`, `OutcomeIsTrue`, `StepsRunOut`, `CallEnds` |
| `Builder` | 3 names, 2 stages, at most 4 dependencies | `TypeOK`, `PlanRespectsDependencies`, `PlanIsEarliest`, `CyclesRefused` |
| `Registry` | 3 clients with 2 calls each on one name | `TypeOK`, `RowsBoundedByDeletes`, `RegistriesAgree` |
| `Cap`, `Reclaim`, `Mismatch`, `Cancel` | the modules of `Shared`, `Registry`, `Control` | the divergences of section 5; each is violated |

Why the bounds are enough:

* Scheduler. One slot suffices because the comparison with the limit is what can
  go wrong, and `SlotCap` is checked at it. A third task queues behind a waiter
  and behind a release, and is the least for which `OvercommitBounded` says
  something: with a capacity of one, two processes may hold two slots, and only
  a third task could hold one too many; so `Fair` has three tasks on the queue
  in two processes. `Shared` has two and spends its states on a recovery, a
  crash, a signal and a fault together. Budgets differ so that one job can run
  with another's. One fault at any place covers each handler; `OneProcess`
  combines it with a signal, which together let a task start twice.
* `Control`. Three callers are one more than the pool has connections, and the
  least for a writer, one that waits for its row lock, and one that waits for a
  connection. One task has no operators, so its control calls reach the save;
  the other has two, so that a load nests twice in one block. The row that is
  missing at first gets its deadlock from two submissions of it. One row is
  stored, so that gaps have a boundary; `Index`, open in the proofs, decides only
  which missing ids share one.
* `Workers`. A leak takes two overlapping restarts and a worker to stop, which
  is three calls; the fourth comes after it or closes. Two registrars let the
  second one take the signals.
* `Polling`. Deadlines below and above what a request and a pause take together,
  and zero, where the loop is never entered; an interval of zero, where no time
  passes between polls; a timeout of zero, which is refused; two waits, so that
  the time of one begins anew.
* `Builder`. Three names give cycles of length one to three, joins and forks,
  four dependencies give repeated ones.
* `Registry`. Two registrations and a concurrent deletion are the shortest way to
  a second row of a name, and names never interact.

The theorems below do not depend on any of these bounds.

Fairness: the `FairSpec` of each module requires only what the event loop does by
itself. It goes on running every coroutine that can go on (`WF_vars(Step(c))`,
or `CallerStep`), timers included, so a wait does expire and time does pass; and
it assumes database and server calls come back, with an answer or an exception,
and `Worker.shutdown` returns. In `AsyncPolling` the HTTP server is *not*
assumed to answer: that the call ends rests on the timeouts of its requests
(`RequestTimesOut`), on the end of their waits (nothing forces `WaitAgain`, and
`MaxWaits` bounds it), and on time itself: `SF_vars(Tick)` says that not
infinitely many polls fit into one second, which is only needed where the
interval is zero. In `TaskControl` the pool's own timeout is no part of the
fairness: the calls end without it. Fairness is weak because locks and the
pool's connections are handed on rather than polled for; nothing makes a caller
call, a call raise or a process die. `RecoverySpec`, for `Reclaim`, adds that the
recovery is called.

The properties a reader should know first:

* `OvercommitBounded`: a queue lends at most its configured slots plus one per
  process beyond the first. `CapRespected`, the documented limit, fails.
* `SlotHasOwner`, `SlotGivenBack`: until a recovery asks for slots, a RUNNING row
  belongs to an attempt between grant and release and is given back, unless a
  call raised or a process died. `OutcomeRecorded` has the same premise
  (`NothingRecovered`): a recovery grants a slot to a task another coroutine is
  submitting, and from then on the row tells nothing of that coroutine.
* `LocksMoveOn`, `CallsRunOut`: at the head of every line before a lock is a
  coroutine that needs nobody to go on, and each step of a call spends one of
  finitely many. These say where a lost lock or an endless loop would come from;
  `EveryCallEnds` adds that, under fairness, nothing else keeps a call from ending.
* `OutcomeRecorded`: when `submit_task` returns, the row tells truly whether
  Temporal began the workflow.
* `StartsBounded`: a scheduler starts one workflow per queue, whatever is retried
  and whatever answers are lost, and one more for each crash and for each worker
  a signal has shut down; a task is started again only if both a call raised and
  a worker was shut down. The price is that, without these, the second task of a
  queue never starts.
* `VersionCountsWrites`: no write of a row is lost between the two ways of
  counting; `ConflictIsReal` and `IdleHoldsNothing`: refusals have a reason, and
  no exception leaves a lock or a connection behind. `RowSpec` says the first two
  at once: the statements of `save` together are one compare-and-set.
* `OnlyInsertsDeadlock`, `CallsRunOut` and `EveryCallEnds` of `TaskControl`:
  nested blocks do not starve each other of connections, which rests on the
  session they share; who waits for a row or a connection waits for a call that
  moves. The one exception are first saves on MySQL, two of which can block each
  other by gap locks until the database aborts one.
* `SerialCallsLeakNothing`: workers leak only where calls of a registrar overlap,
  and there they do (see section 5). `UnservedMeansRestart`: what overlapping calls
  never lose is the restart that serves what has been registered.
* `OverrunBounded`, `TimeoutIsReal`: by how much polling misses its deadline, and
  that a job which made it in time is not reported as late, both given how many
  waits the last status request took. `StepsRunOut` bounds the steps of a call
  that pauses between polls; with an interval of zero there is no such bound.
* `PlanRespectsDependencies`, `PlanIsEarliest`, `CyclesRefused`: together they
  say what the layered sort computes.

## 4. Theorems

For each module, TLAPS checks its theorems for every value of the constants
that the module's `ASSUME` allows: finite sets of tasks, processes, clients or
names where something is counted, at least one process, bounds and budgets that
are numbers, and constants that are told apart (tasks from recoverers, one kind
of call from another). TLC evaluates these assumptions in every run. In each file
the invariant is a conjunction of named parts, shown to hold initially and to be
kept by each action.

| Theorem | Says |
|---|---|
| **`DynamicScheduler_proofs`** | |
| `TypeCorrect` | `Spec => []TypeOK` |
| `OvercommitIsBounded` | a queue lends at most one slot more than configured per process beyond the first |
| `OneProcessCap` | with one process, the configured limit itself holds |
| `ImplementsSlotPool` | `Spec => PoolSpec`, with `held` the RUNNING tasks |
| `NeverWoken` | a waiting `acquire_slot` ends by its timeout or with its process |
| **`Progress_proofs`** | |
| `LocksAreNeverLost` | `LocksMoveOn`: who needs a lock is in its line, and the head of every line can go on |
| `CallsEndInFinitelyManySteps` | `CallsRunOut`: each step of a call spends some of a budget that nothing else refills |
| `RetryIsDead` | `_retry_acquire` is never entered |
| **`Submission_proofs`** | |
| `AttemptsAreBounded` | a task makes no more attempts than some job of its scheduler allows |
| `StartsAreBounded` | a scheduler starts no more workflows of a queue than one, and one for each crash and each worker shut down by a signal; a task is started twice only after such a signal and a call that raised |
| `SlotsHaveOwners` | `SlotHasOwner` |
| `OutcomesAreRecorded` | `OutcomeRecorded` |
| **`TaskControl_proofs`** | |
| `TypeCorrect` | types, and no more connections lent than the pool has |
| `NoWriteLost` | a row's version counts its committed updates |
| `NothingLeftBehind` | a call that has ended holds no connection and no lock |
| `ConflictsAreReal` | a save is refused only if the row was written after its Task was loaded, or was there before a submission |
| `ImplementsVersionedRow` | `Spec => RowSpec`, with `based` the version in the Task a call holds |
| `NoDeadlock` | `OnlyInsertsDeadlock`: whoever waits is blocked by a call that goes on, by one that waits for such a call, or by a first save on MySQL that waits for another first save, which waits for it |
| `CallsTakeFinitelyManySteps` | `CallsRunOut`: a bound on the steps of each call, which each of them lowers |
| **`WorkerRegistry_proofs`** | |
| `TypeCorrect` | `Spec => []TypeOK` |
| `EachStoppedOnce` | no worker is stopped by two calls, nor one that a registrar still knows of |
| `SerialLeaksNothing` | a registrar whose calls never overlap leaks no worker |
| `TrackedWorkerIsCurrent` | between calls, the worker a registrar knows serves exactly what is registered |
| `RegisteredIsServedSoon` | `UnservedMeansRestart`: what is registered is served, or a restart that will serve it is under way |
| `ClosedForGood` | when `deregister` or the signal handler ends, no worker of a registrar whose calls never overlap runs |
| **`AsyncPolling_proofs`** | |
| `TypeCorrect` | `Spec => []TypeOK` |
| `OverrunIsBounded` | polling overruns its deadline by at most an interval and the waits of its last status request, each as long as its timeout |
| `TimeoutsAreReal` | a job over that long before the deadline is never reported late |
| `OutcomesAreTrue` | a reported result or failure of a polled job is what became of it |
| `CallTakesFinitelyManySteps` | `StepsRunOut`: if the interval is not zero, a bound on the steps of a call, seconds of waiting included |
| **`WorkflowBuilder_proofs`** | |
| `TypeCorrect` | types; no in-degree is counted below zero |
| `PlansRespectDependencies` | a returned plan has each operator once, after all it depends on |
| `PlansAreEarliest` | and in the earliest layer possible |
| `CyclesAreRefused` | a cycle is reported only if there is one, a plan returned only if there is none |
| `PlansAreUnique` | no other plan respects the dependencies and is as early as possible |
| `SortTakesFinitelyManySteps` | each step of the sort leaves it less to do |
| **`OperatorRegistry_proofs`** | |
| `TypeCorrect` | `Spec => []TypeOK` |
| `DeletesBoundRows` | every row of a name beyond the first took a deletion |
| `CachesAgree` | while no row of a name was deleted, what any cache holds for it is in the table |

### Slots (`DynamicScheduler_proofs`)

`OvercommitBounded` is not inductive: a count taken now is used by a grant
later. Three strengthenings carry the argument.

1. `LockInv`: a coroutine between its count and its unlock (`Critical`) is at the
   head of its lock's queue. It needs only that a coroutine joins at the end,
   leaves from the head, and that a crash empties both. Hence the coroutines at
   `granting` for one queue are in different processes (`OnePerProcess`,
   `GrantersApart`).
2. `GrantInv`: of each queue, the RUNNING rows and the coroutines at `granting`
   together are no more than `SlotCap`, the configured limit plus the number of
   processes minus one. A coroutine gets to `granting` only when the rows are
   fewer than the limit, and the others there are in other processes; a grant
   moves one from the second summand to the first, and no other step writes
   RUNNING.
3. `EventInv`: an entry of a pending set is never newer than its creator's
   current call, and while that call waits its entry lies in the pending set of
   its own process and queue. `release_slot` pops an entry of a queue while it
   holds the queue's lock, which a waiter would hold too, so no popped event has
   a listener.

`ImplementsSlotPool` follows from `GrantInv` step by step: a status write to
RUNNING of a task that was not RUNNING is `Take`, with the capacity left that
`GrantInv` guarantees; leaving RUNNING is `Free`; everything else stutters.

### Submissions (`Submission_proofs`)

* `AttemptInv`: `max_retries` belongs to the scheduler and each `add_job`
  overwrites it, so the range a job builds is not its own budget but that of some
  job of the same scheduler; and the field holds one whenever a range is about
  to be built, even after a crash emptied the object, as the `add_job` of the
  task about to build it came later.
* `StartInv`: only the task that has just made its queue's worker starts its
  workflow, and its own worker then refuses every further attempt. A crash takes
  the worker and the caller together; a signal takes the worker alone. So the
  tasks of one scheduler and queue that have started or are about to (`Begun`)
  are no more than the crashes, the workers shut down, and the worker that is
  there now. Each start of a task but the present one took a worker out of the
  registrar and an exception into the attempt loop.
* `SubmitInv`, per task and until a recovery asks for slots: which places of
  `submit_task` go with which status of the row, and what a start that returned
  has left.

### Progress (`Progress_proofs`)

`LocksMoveOn` and `CallsRunOut` are the two halves of "no call hangs".

* `QueueInv`: who needs a lock stands in its line (`StandInv`), once (`OnceInv`),
  and who stands in a line needs that lock (`LineInv`). `LockInv` alone would
  let a coroutine that died or left stay at the head of a line for ever. Each
  action touches the lines in one of three ways, each with a lemma: `Stays`,
  `Joins` at the end, `Leaves` from the head; a crash empties all lines of the
  process and moves all its coroutines to places that need none.
* `NoRetry`, from `EventInv`: the head is never at `retry`, the one place that
  waits for a lock its own caller holds. `RowInv`: the row a coroutine in the
  line will update exists, so that the update is not what stops it.
* `StepsLeft` weighs the turns a loop has left and the steps left in the present
  turn. It is bounded from the moment the range of attempts is built, because
  that copies `max_retries`: what later jobs write into the scheduler's field
  changes no loop that runs. Before that (`load`) the field may change, but
  there a call takes one step only.

### Rows (`TaskControl_proofs`)

`HolderInv` says which places hold a connection, always that of the outermost
block, and that exactly the call about to write a row holds its lock.
`VersionInv` adds that this call has seen the row's present version, which is
why the value `save` computes in Python agrees with the one a status update
counts in SQL. `SeenInv` says that a loaded version is never above its row's, so
that a mismatch means an intervening write.

`ImplementsVersionedRow` maps each step to one of `VersionedRow` or to a stutter:
the commit of a save is `Save`, whose guard `based[c] = version[t]` is
`VersionInv`, a committed status update is `Update`, the first statement of a
load is `Read`. The check in Python and the write come together in the commit
because of the row lock; with the faulty variant `SelectUnlocked` they do not.

`NoDeadlock` and `CallsTakeFinitelyManySteps` are to `EveryCallEnds` what the
theorems of `Progress_proofs` are to the scheduler's. Chains of waiting are
short because a call asks for a connection only while it holds nothing, all its
blocks being one session, and for nothing more once it has a row's lock; so
whoever holds a row's lock goes on, and whoever holds a connection goes on or
waits for a lock. Gap locks differ in that two sessions can hold the same one:
`GapInv` says that on MySQL exactly the saves before their insert hold one, of
the row they want to insert, and from that a wait for a gap is always mutual
(`GapWaitIsMutual`), as lying in one gap is symmetric. The circle is therefore a
pair of first saves, of which `DeadlockVictim` ends one.

### Workers (`WorkerRegistry_proofs`)

Two overlapping restarts await in between, so nothing about "the" worker of a
registrar is stable but who will stop it. `WorkerInv`: a worker is in its
registrar's entry or in the hands of one call that stops it, never both, which
rests on `StopTracked` taking the entry before it awaits. `SerialInv`: without
an overlap those two are all the places there are. `FreshInv`: a worker that
lacks an asset has a restart created after it (no faults). `OrderInv`: the
number of a call, which names its worker, is not used twice. `ServedInv`: while a
registrar has assets and is not closed, its entry is a running worker or one of
its restarts is before its launch; a restart that takes a worker out of the
entry is itself one that will launch.

### Polling (`AsyncPolling_proofs`)

`ClockInv` bounds the clock *plus what is left of the present wait* at every
place, since a bound on the clock alone is not kept by a request that begins;
each wait that begins anew raises the bound by one timeout (`Allowed`). `JobInv`
relates the status last read to the moment the job ended.
`CallTakesFinitelyManySteps` compares pairs: `TimeLeft`, the seconds until the
latest moment at which a loop can end (`LongestLoop`), and for steps that take no
time `StepsLeft`, how many of them can come before time has to pass. That number
is only refilled by a pause, which takes a second unless the interval is zero.

### Plans (`WorkflowBuilder_proofs`)

`GraphInv`: `in_degree` counts the edges into a name, repeated ones included.
`StageInv`: the graph, updated beside the stages, has the same dependencies.
`SortInv`, during a sort: the countdown of a name is the number of edges from
names not popped yet; a name is queued exactly when that is zero and it was not
popped; names of the present layer depend on closed layers only, and, after the
first, on one of the last. From the countdown follows that names left over when
the queue is empty wait for one another (`SortStuck`); conversely the first
layer that a set of names waiting for one another could meet does not exist
(`CyclesAreRefused`). `OutcomeInv` keeps this for a returned plan.

`PlansAreUnique` is a fact about any two plans that respect the dependencies and
are as early as can be (`PlansAgree`): in the lowest layer with a name that lies
higher in the other plan, what holds that name back there lies lower still here.
The sort does not know the order of a Python set, and the model leaves it open;
this theorem says that it does not matter.

### Registrations (`OperatorRegistry_proofs`)

The rows of a name have different versions, all between 1 and one more than the
deletions (`VersionInv`), so versions map them one to one into that interval.
Keeping it takes a fact about what a client has read: a row it saw that is gone
has a version no higher than the deletions, so that a new row's version, one more
than what was read, is either fresh or refused by the unique constraint.

### Only model-checked

Every safety and action property of the passing runs is proved, and both
refinements. What stays with TLC is liveness: TLAPS does not reason about
fairness and ENABLED. Of each liveness property the part that is no matter of
fairness is proved:

| Liveness (TLC) | Its safety part (TLAPS) | What is left to TLC |
|---|---|---|
| `EveryCallEnds` of the scheduler | `LocksMoveOn`, `CallsRunOut` | that the head of a line, and a coroutine in none, has an enabled step |
| `SlotGivenBack` | `SlotHasOwner`, with the two above | the same |
| `EveryCallEnds` of `TaskControl` | `OnlyInsertsDeadlock`, `CallsRunOut` | that a call which waits for nobody has an enabled step |
| `AssetsGetServed` | `UnservedMeansRestart` | that a restart under way gets to its launch |
| `SignalStopsWorkers` | `ClosingLeavesNone` (theorem `ClosedForGood`) | that the closing call ends |
| `CallEnds` | `StepsRunOut`, with an interval above zero | that a call that is not done has an enabled step; and, with an interval of zero, that time passes |

`CallsRunOut`, of the scheduler, does not cover the time before the range of
attempts is built; a call is there for its insert and one load. The well-founded
argument itself (a decreasing number reaches zero) is part of what TLC checks.

## 5. Where the code and its own text disagree

Shown by a run:

* `Cap`: two processes exceed `max_concurrent` (app/scheduling/concurrency.py:25).
* `Reclaim`: `recover_cluster_state` leaves the slots of dead processes taken
  (app/scheduling/dynamic_scheduler.py:138).
* `Mismatch`: registering an operator name again is always refused as a version
  conflict (app/plugins/operators/registry.py:98).
* `Cancel`: `cancel_task` commits a save that leaves the status as it was
  (app/persistence/adapters/task.py:262), while its docstring says that it
  updates the status (app/engine.py:35).

Shown by a theorem or by the model, without a run of its own:

* `release_slot` does not wake a waiter, which keeps the lock that the release
  needs (app/scheduling/concurrency.py:34; theorem `NeverWoken`).
* Overlapping restarts leak workers: the second one finds no entry while the
  first awaits the old worker's shutdown, and the entry keeps only the last
  worker launched. `SerialCallsLeakNothing` holds only outside `overlapped`.
  "All workers terminated" (workflow_registrar.py:119) is not true of these, nor
  of the workers of a process's earlier registrars, which the signal handler no
  longer reaches.
* One slow status request ends a polling call: `execute_sync_request` turns
  every exception into `RuntimeError`, so the handler that would go on polling
  (registry.py:239) is never entered.
* The stages of a returned `Workflow` are the builder's own objects
  (workflow_builder.py:71), so using the builder again makes them differ from
  the plan; `_validate_workflow`, which would notice, is never called.

Met while modelling:

* `recover_cluster_state` acquires a slot for each PENDING task and neither
  starts it nor gives the slot back.
* After an attempt whose start failed, the queue's worker exists, so every
  further attempt is refused by `register`; likewise the second task of a queue.
  After SIGINT or SIGTERM, whose handler leaves the process running, `register`
  accepts the queue again, for a worker that nothing will shut down
  (workflow_registrar.py:51, 99).
* `max_retries` is a field of the scheduler that each `add_job` overwrites, and
  `schedule_task` reads it after its load: a job can run with the retries of a
  later one (dynamic_scheduler.py:89).
* A queue whose worker died, or whose Worker constructor raised during a restart,
  is left unserved, and nothing notices (workflow_registrar.py:77, 90).
* Two first saves can deadlock on MySQL: each locks the gap its row is missing
  from and waits for the other to insert (task.py:137, 150). One of the two
  submissions fails with `RuntimeError`, with nothing inserted by it.
* `poll_interval` is not checked: with 0 the call polls as fast as the server
  answers (registry.py:236), and a status request without a timeout of its own is
  refused.
* A request has no overall timeout: `request_timeout` limits each wait of it
  (registry.py:202, 252), so how late a call can end is up to the servers.
* No control call can succeed: a loaded task's operators are plain `Operator`
  objects that `_serialize_operator` rejects, and for a workflow without
  operators the save commits the new version and then raises on the missing
  status.
* On SQLite, SELECT ... FOR UPDATE locks nothing, and two saves can lose a write.
* `pending_tasks.discard(task_id)` never matches an entry (concurrency.py:68).
* The slot is given back when the start request returns, while RUNNING is
  documented as "the task is executing" (enum.py).
* `_execute_operator` looks up the dependencies of every operator by name and
  raises `KeyError` for one without dependencies, so the first layer of a
  workflow cannot run (workflow_translator.py:71).
* `graceful_shutdown_timeout=timedelta(30)` is thirty days, not seconds.
* `main.py` configures polling with `terminal_statuses` and `status_field`, which
  nothing reads: every status is then unknown (`known` is FALSE) and the call
  can only time out.
* `QueueStorage.save` adds the dataclass instead of the mapped model, so no queue
  row is ever written by the application.

## 6. Not modelled

* The workflow class that `WorkflowTranslator` generates, with its layers and
  retries: its first layer always raises (above), and a loaded operator is a
  plain `Operator`, so its activity would fail next. A model of it as written
  has no behaviour beyond that.
* `Database.session`, `transaction` and `transactional`: nothing calls them. A
  block of `transaction()` within another would commit and close the shared
  session under it. The Prometheus gauges are left out too. The registry of
  scoped sessions is never cleared with `remove()`: it keeps an entry for every
  coroutine that made a storage call.
* The columns that `record_retry_attempt` writes and `get_retry_count` reads,
  which decide nothing; `QueueStorage.save`, which always raises.
* Lock waits that time out (`innodb_lock_wait_timeout`): a statement that raises
  for any reason is `DatabaseRaises`.
* The setters and checks of `TaskBuilder`: its divergences (default scheduler
  type "interval", key "retries" where "max_retries" is read) are single lines.
  What a built Task brings to `save` is in `TaskControl`.
* Containers, settings, clients, `main.py`: wiring and an example client. Of the
  settings the choice of the database is in `Database`.
* `monitoring/`, the local executor, `app/container.py`, `transform.py`, the
  translator's back-ups and `tests/`: empty, commented out or not imported.
* Compositions: the scheduler calls the registrar only by `register` without
  `override`, which never restarts a worker. What the registrar does by itself
  that `register` sees is the signal handler's removal of workers, which
  `DynamicScheduler` has (`Shutdown`); the rest of `WorkerRegistry` is not put
  beside it. Control calls meet the scheduler only on the row, where
  `TaskControl` has its status updates.

## 7. State of the project

Modelled, checked and proved: the slots and the scheduler with their abstract
specification; the submissions, their progress; the rows with theirs, and their
sessions; the registrars; the polling; the builder and its sort; the operator
registry. Left:

1. The generated workflow class, once its `_execute_operator` can run.
2. Larger instances of `Shared` (three tasks and a crash), if the state space is
   reduced first.
3. An abstract specification of the operator registry (what `rows` promises to
   the caches), beside its two invariants.
