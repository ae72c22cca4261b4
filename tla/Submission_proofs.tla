------------------------- MODULE Submission_proofs --------------------------
(***************************************************************************)
(* Theorems about one submit_task of DynamicScheduler: how often it tries,  *)
(* how often its workflow is started, who owns the slot it was granted and  *)
(* what is recorded when it returns.                                        *)
(***************************************************************************)
EXTENDS DynamicScheduler_proofs

-----------------------------------------------------------------------------
(* What a step leaves alone *)

\* A coroutine touches nothing of another's submission but the waiter it wakes
\* and, in the table, the row of the task it acquires or releases for.
LEMMA OthersKept ==
    ASSUME TypeOK, NEW c \in Coros, Step(c) \/ CallStep(c) \/ FaultStep(c)
    PROVE  /\ \A d \in Coros : d # c =>
                 /\ pc'[d] = pc[d] \/ (pc[d] = "waiting" /\ pc'[d] = "retry")
                 /\ calls'[d] = calls[d] /\ target'[d] = target[d]
           /\ \A t \in Tasks : t # c =>
                 /\ limit'[t] = limit[t] /\ ran'[t] = ran[t] /\ starts'[t] = starts[t]
                 /\ t # target[c] => status'[t] = status[t]
           /\ crashes' = crashes /\ shutdowns' = shutdowns /\ faults <= faults'
<1>. USE DEF TypeOK, TableTypeOK, Goto, schedVars
<1>0. crashes' = crashes /\ shutdowns' = shutdowns /\ faults <= faults'
  BY DEF Step, CallStep, FaultStep, NoFault, Fault
<1>1. CASE ControllerStep(c) /\ UNCHANGED schedVars
  <2>1. CASE ReleaseSlot(c)
    BY <1>0, <1>1, <2>1 DEF ReleaseSlot, WakeNext, UpdateTaskStatus
  <2>. QED
    BY <1>0, <1>1, <2>1
    DEF ControllerStep, NoQueueRow, SlotFree, EnterWait, GrantSlot, WaitExpires,
        HandleTimeout, ScheduleRetry, RecordRetryAttempt, UpdateTaskStatus
<1>2. CASE StorageFails(c) /\ UNCHANGED schedVars
  BY <1>0, <1>2 DEF StorageFails, ReadFails, UpdateFails, UpdateTaskStatusRaises,
                    UpdateTaskStatus
<1>3. CASE c \in Tasks /\ (TaskStep(c) \/ SubmitTask(c) \/ TaskFault(c))
  BY <1>0, <1>3
  DEF TaskStep, TaskFault, SubmitTask, SubmitFails, AddJob, GetTaskWithRetry,
      GetTaskFails, NextAttempt, AttemptsOver, Return, GiveUp, GiveUpFails,
      UpdateTaskStatusRaises, UpdateTaskStatus, InsertRow, RegisterWorkflow,
      RegisterRefused, TranslateFails, WorkerFails, StartWorkflow, StartFails,
      Leave, CallAcquire, CallRelease
<1>4. CASE c \in Recoverers /\ (RecoveryStep(c) \/ StartRecovery(c) \/ RecoveryLoadFails(c))
  BY <1>0, <1>4
  DEF RecoveryStep, StartRecovery, RecoveryLoadFails, RecoverTask, RecoveryOver,
      RecoveryRaises, CallAcquire
<1>. QED
  BY <1>1, <1>2, <1>3, <1>4 DEF Step, CallStep, FaultStep

-----------------------------------------------------------------------------
(* The attempts *)

\* A number of attempts some job of t's scheduler allows.
Budget(t, n) ==
    \E u \in Tasks : SchedulerOf[u] = SchedulerOf[t] /\ n = Retries[u]

\* The loop's range is empty or a job's budget, the counter stays within it,
\* and the shared field is a job's budget whenever a range is about to be built.
AttemptInv ==
    \A t \in Tasks :
        /\ calls[t] <= limit[t]
        /\ limit[t] > 0 => \E n \in Nat : limit[t] = n + 1 /\ Budget(t, n)
        /\ pc[t] \in {"idle", "saved", "load"} => calls[t] = 0
        /\ pc[t] = "load" => Budget(t, maxRetries[SchedulerOf[t]])

\* The shared field and the ranges change only where a job is added and where
\* a task has been loaded; only an attempt counts.
LEMMA AttemptEffect ==
    ASSUME TypeOK, NEW c \in Coros, Step(c) \/ CallStep(c) \/ FaultStep(c)
    PROVE  /\ maxRetries' = maxRetries \/ (c \in Tasks /\ AddJob(c))
           /\ c \in Tasks =>
                 \/ GetTaskWithRetry(c) \/ NextAttempt(c)
                 \/ limit' = limit /\ calls' = calls
           /\ c \in Tasks /\ pc'[c] = "load" => AddJob(c)
           /\ c \in Tasks /\ pc'[c] \in {"idle", "saved"} => pc[c] = "idle"
<1>. USE DEF TypeOK, Goto, schedVars
<1>0. c \in Tasks => c \notin Recoverers
  BY ControllerAssumption
<1>1. CASE ControllerStep(c) /\ UNCHANGED schedVars
  BY <1>1 DEF ControllerStep, NoQueueRow, SlotFree, EnterWait, GrantSlot, WaitExpires,
              HandleTimeout, ScheduleRetry, RecordRetryAttempt, ReleaseSlot, WakeNext
<1>2. CASE StorageFails(c) /\ UNCHANGED schedVars
  BY <1>2 DEF StorageFails
<1>3. CASE c \in Tasks /\ (TaskStep(c) \/ SubmitTask(c) \/ TaskFault(c))
  BY <1>3
  DEF TaskStep, TaskFault, SubmitTask, SubmitFails, AddJob, GetTaskWithRetry,
      GetTaskFails, NextAttempt, AttemptsOver, Return, GiveUp, GiveUpFails,
      RegisterWorkflow, RegisterRefused, TranslateFails, WorkerFails,
      StartWorkflow, StartFails, Leave, CallAcquire, CallRelease
<1>4. CASE c \in Recoverers /\ (RecoveryStep(c) \/ StartRecovery(c) \/ RecoveryLoadFails(c))
  BY <1>0, <1>4
  DEF RecoveryStep, StartRecovery, RecoveryLoadFails, RecoverTask, RecoveryOver,
      RecoveryRaises
<1>. QED
  BY <1>1, <1>2, <1>3, <1>4 DEF Step, CallStep, FaultStep

\* A crash resets the shared field of a scheduler only together with the tasks
\* that were about to read it.
LEMMA AttemptCrash ==
    ASSUME TypeOK, AttemptInv, NEW p \in Procs, Crash(p)
    PROVE  AttemptInv'
<1>. SUFFICES ASSUME NEW t \in Tasks
              PROVE  /\ pc'[t] \in {"idle", "saved", "load"} => calls[t] = 0
                     /\ pc'[t] = "load" => Budget(t, maxRetries'[SchedulerOf[t]])
  BY DEF Crash, AttemptInv, Budget
<1>1. t \in Coros /\ SchedulerOf[t] \in Schedulers
  BY SchedulerAssumption DEF Coros
<1>2. pc'[t] # "dead" => pc'[t] = pc[t]
  BY <1>1 DEF Crash, TypeOK
<1>3. ASSUME pc'[t] = "load"
      PROVE  maxRetries'[SchedulerOf[t]] = maxRetries[SchedulerOf[t]]
  <2>1. ProcOf[t] # p
    BY <1>1, <1>3 DEF Crash, TypeOK, Final
  <2>2. SchedulerOf[t] \notin SchedulersIn(p)
    BY <2>1, SchedulerAssumption DEF SchedulersIn
  <2>. QED
    BY <1>1, <2>2 DEF Crash
<1>. QED
  BY <1>2, <1>3 DEF AttemptInv

\* The bound on the attempts is inductive.
LEMMA AttemptNext == TypeOK /\ AttemptInv /\ [Next]_vars => AttemptInv'
<1>. SUFFICES ASSUME TypeOK, AttemptInv, [Next]_vars
              PROVE  AttemptInv'
  OBVIOUS
<1>1. CASE UNCHANGED vars \/ Terminating \/ Shutdown
  BY <1>1 DEF Terminating, Shutdown, ShutdownWorker, vars, ctlVars,
              schedVars, AttemptInv, Budget
<1>2. ASSUME NEW c \in Coros, Step(c) \/ CallStep(c) \/ FaultStep(c), NEW t \in Tasks
      PROVE  /\ calls'[t] <= limit'[t]
             /\ limit'[t] > 0 => \E n \in Nat : limit'[t] = n + 1 /\ Budget(t, n)
             /\ pc'[t] \in {"idle", "saved", "load"} => calls'[t] = 0
             /\ pc'[t] = "load" => Budget(t, maxRetries'[SchedulerOf[t]])
  <2>0. /\ t \in Coros /\ SchedulerOf[t] \in Schedulers
        /\ calls[t] \in Nat /\ limit[t] \in Nat /\ maxRetries[SchedulerOf[t]] \in Nat
    BY SchedulerAssumption DEF Coros, TypeOK
  <2>1. pc'[t] = "load" => Budget(t, maxRetries'[SchedulerOf[t]])
    <3>1. CASE c \in Tasks /\ AddJob(c)
      <4>1. CASE SchedulerOf[c] = SchedulerOf[t]
        BY <2>0, <3>1, <4>1 DEF AddJob, Budget, TypeOK
      <4>2. CASE SchedulerOf[c] # SchedulerOf[t]
        BY <2>0, <3>1, <4>2, <1>2, OthersKept DEF AddJob, AttemptInv, TypeOK
      <4>. QED
        BY <4>1, <4>2
    <3>2. CASE maxRetries' = maxRetries /\ ~(c \in Tasks /\ AddJob(c))
      BY <2>0, <3>2, <1>2, OthersKept, AttemptEffect DEF AttemptInv
    <3>. QED
      BY <1>2, <3>1, <3>2, AttemptEffect
  <2>2. CASE t # c
    BY <1>2, <2>0, <2>1, <2>2, OthersKept DEF AttemptInv
  <2>3. CASE t = c /\ GetTaskWithRetry(c)
    <3>1. /\ limit'[t] = maxRetries[SchedulerOf[t]] + 1 /\ pc[t] = "load"
          /\ calls' = calls /\ pc'[t] = "next"
      BY <2>0, <2>3 DEF GetTaskWithRetry, Goto, TypeOK
    <3>. QED
      BY <2>0, <2>1, <3>1 DEF AttemptInv
  <2>4. CASE t = c /\ NextAttempt(c)
    <3>1. /\ calls'[t] = calls[t] + 1 /\ calls[t] < limit[t] /\ limit' = limit
          /\ pc'[t] = "acquire"
      BY <2>0, <2>4 DEF NextAttempt, CallAcquire, Goto, schedVars, TypeOK
    <3>. QED
      BY <2>0, <2>1, <3>1 DEF AttemptInv
  <2>5. CASE t = c /\ limit' = limit /\ calls' = calls
    BY <1>2, <2>0, <2>1, <2>5, AttemptEffect DEF AttemptInv, AddJob
  <2>. QED
    BY <1>2, <2>2, <2>3, <2>4, <2>5, AttemptEffect
<1>3. ASSUME NEW p \in Procs, Crash(p)
      PROVE  AttemptInv'
  BY <1>3, AttemptCrash
<1>. QED
  BY <1>1, <1>2, <1>3 DEF Next, AttemptInv, Budget

\* At first no attempt has been made.
LEMMA AttemptInit == Init => AttemptInv
BY DEF Init, CtlInit, AttemptInv, Coros

\* However the submissions to a scheduler interleave, a task's attempts stay
\* within the max_retries of a job of that scheduler.
THEOREM AttemptsAreBounded == Spec => []AttemptsWithinABudget
<1>1. TypeOK /\ AttemptInv => AttemptsWithinABudget
  BY SchedulerAssumption DEF TypeOK, AttemptInv, Budget, AttemptsWithinABudget, Coros
<1>. QED
  BY <1>1, AttemptInit, AttemptNext, TypeCorrect, PTL DEF Spec

-----------------------------------------------------------------------------
(* The starts *)

\* The tasks of a scheduler and a queue whose workflow has begun or is about to.
Begun(s, q) ==
    {t \in Tasks : /\ SchedulerOf[t] = s /\ QueueOf[t] = q
                   /\ starts[t] > 0 \/ pc[t] = "start"}

HasWorkerCount(s, q) == IF q \in workers[s] THEN 1 ELSE 0

\* The start a task has been promised counts with those it has made.
Promised(t) == starts[t] + IF pc[t] = "start" THEN 1 ELSE 0

\* A call of t has just returned what Temporal said.
HasReturned(t) ==
    pc[t] \in Final \/ (ran[t] /\ pc[t] \in {"release", "freed"})

\* A registration, and so a start, is paid for by the worker it makes; a
\* shutdown takes the worker away and counts in its place, a crash takes it away
\* and ends the submissions with it.  And a submission that goes on after a
\* start has met a call that raised.
TaskStartInv(t) ==
    /\ pc[t] = "idle" => starts[t] = 0
    /\ starts[t] <= 1 + shutdowns
    /\ pc[t] \notin Final =>
          Promised(t) <= shutdowns + HasWorkerCount(SchedulerOf[t], QueueOf[t])
    /\ starts[t] <= faults + IF HasReturned(t) THEN 1 ELSE 0

QueueStartInv(s, q) ==
    Cardinality(Begun(s, q)) <= crashes + shutdowns + HasWorkerCount(s, q)

StartInv ==
    /\ \A t \in Tasks : TaskStartInv(t)
    /\ \A s \in Schedulers, q \in Queues : QueueStartInv(s, q)

\* A step of a coroutine registers a workflow, starts one, or leaves the worker
\* and what was begun alone; it returns only from a start.
LEMMA StartEffect ==
    ASSUME TypeOK, NEW c \in Coros, Step(c) \/ CallStep(c) \/ FaultStep(c)
    PROVE  /\ pc[c] \notin Final /\ pc'[c] # "idle"
           /\ \/ c \in Tasks /\ RegisterWorkflow(c)
              \/ /\ workers' = workers
                 /\ c \in Tasks =>
                       /\ pc'[c] # "start"
                       /\ \/ starts' = starts
                          \/ /\ pc[c] = "start"
                             /\ starts'[c] \in {starts[c], starts[c] + 1}
                       /\ \/ HasReturned(c)'
                          \/ ~HasReturned(c) /\ starts' = starts
                          \/ faults' = faults + 1
<1>. USE DEF TypeOK, Goto, schedVars, Final, HasReturned
<1>0. /\ c \in Tasks => c \notin Recoverers
      /\ FaultStep(c) => faults' = faults + 1
  BY ControllerAssumption DEF FaultStep, Fault
<1>1. CASE ControllerStep(c) /\ UNCHANGED schedVars
  BY <1>1 DEF ControllerStep, NoQueueRow, SlotFree, EnterWait, GrantSlot, WaitExpires,
              HandleTimeout, ScheduleRetry, RecordRetryAttempt, ReleaseSlot, WakeNext
<1>2. CASE StorageFails(c) /\ UNCHANGED schedVars /\ Fault
  BY <1>2 DEF StorageFails, ReadFails, UpdateFails, Fault
<1>3. CASE c \in Tasks /\ (TaskStep(c) \/ SubmitTask(c) \/ (TaskFault(c) /\ Fault))
  <2>1. CASE SubmitTask(c) \/ SubmitFails(c) \/ AddJob(c) \/ GetTaskWithRetry(c)
             \/ GetTaskFails(c) \/ GiveUp(c) \/ GiveUpFails(c)
    BY <1>3, <2>1 DEF SubmitTask, SubmitFails, AddJob, GetTaskWithRetry, GetTaskFails,
                      GiveUp, GiveUpFails
  <2>2. CASE NextAttempt(c) \/ AttemptsOver(c) \/ Return(c)
    BY <1>3, <2>2 DEF NextAttempt, AttemptsOver, Return, AtLoopHead, CallAcquire
  <2>3. CASE TranslateFails(c) \/ RegisterRefused(c) \/ WorkerFails(c)
    BY <1>3, <2>3 DEF TranslateFails, RegisterRefused, WorkerFails, Leave, CallRelease
  <2>4. CASE StartWorkflow(c)
    <3>1. pc[c] = "start" /\ workers' = workers /\ pc'[c] = "release" /\ ran'[c]
      BY <1>3, <2>4 DEF StartWorkflow, Leave, CallRelease, Coros
    <3>2. starts'[c] \in {starts[c], starts[c] + 1}
      BY <1>3, <2>4 DEF StartWorkflow, StartOutcomes
    <3>. QED
      BY <3>1, <3>2
  <2>5. CASE StartFails(c) /\ Fault
    <3>1. pc[c] = "start" /\ workers' = workers /\ pc'[c] = "release"
      BY <1>3, <2>5 DEF StartFails, Leave, CallRelease
    <3>2. starts'[c] \in {starts[c], starts[c] + 1} /\ faults' = faults + 1
      BY <1>3, <2>5 DEF StartFails, StartOutcomes, Fault
    <3>. QED
      BY <3>1, <3>2
  <2>6. CASE RegisterWorkflow(c)
    BY <1>3, <2>6 DEF RegisterWorkflow
  <2>. QED
    BY <1>3, <2>1, <2>2, <2>3, <2>4, <2>5, <2>6 DEF TaskStep, TaskFault
<1>4. CASE c \in Recoverers /\ (RecoveryStep(c) \/ StartRecovery(c) \/ RecoveryLoadFails(c))
  BY <1>0, <1>4
  DEF RecoveryStep, StartRecovery, RecoveryLoadFails, RecoverTask, RecoveryOver,
      RecoveryRaises, AtRecoveryLoop, CallAcquire
<1>. QED
  BY <1>0, <1>1, <1>2, <1>3, <1>4 DEF Step, CallStep, FaultStep

\* How many have begun follows the worker, the crashes and the shutdowns.
LEMMA BegunBounded ==
    ASSUME NEW S, NEW T, S \subseteq Tasks, T \subseteq Tasks, NEW m \in Nat,
           NEW n \in Nat, NEW c, T \subseteq S \/ (T = S \cup {c} /\ n > m),
           Cardinality(S) <= m, T \subseteq S => m <= n
    PROVE  Cardinality(T) <= n
<1>1. /\ IsFiniteSet(S) /\ IsFiniteSet(T)
      /\ Cardinality(S) \in Nat /\ Cardinality(T) \in Nat
  BY TableAssumption, FS_Subset, FS_CardinalityType
<1>2. CASE T \subseteq S
  <2>1. Cardinality(T) <= Cardinality(S)
    BY <1>1, <1>2, FS_Subset
  <2>. QED
    BY <1>1, <1>2, <2>1
<1>3. CASE T = S \cup {c} /\ n > m
  <2>1. Cardinality(T) = Cardinality(S) \/ Cardinality(T) = Cardinality(S) + 1
    BY <1>1, <1>3, FS_AddElement
  <2>. QED
    BY <1>1, <1>3, <2>1
<1>. QED
  BY <1>2, <1>3

\* What the four counters are, in both states of a step.
LEMMA StartTypes ==
    ASSUME TypeOK, NEW t \in Tasks
    PROVE  /\ t \in Coros /\ SchedulerOf[t] \in Schedulers /\ QueueOf[t] \in Queues
           /\ starts[t] \in Nat /\ faults \in Nat /\ crashes \in Nat /\ shutdowns \in Nat
BY TableAssumption, SchedulerAssumption DEF TypeOK, Coros

\* A task makes the worker of its queue and is about to start.
LEMMA StartRegister ==
    ASSUME TypeOK, StartInv, NEW c \in Tasks, RegisterWorkflow(c),
           faults' = faults, crashes' = crashes, shutdowns' = shutdowns
    PROVE  StartInv'
<1>0. c \in Coros /\ SchedulerOf[c] \in Schedulers /\ QueueOf[c] \in Queues
  BY StartTypes
<1>1. /\ pc[c] = "granted" /\ pc' = [pc EXCEPT ![c] = "start"] /\ starts' = starts
      /\ ran' = ran /\ QueueOf[c] \notin workers[SchedulerOf[c]]
      /\ workers' = [workers EXCEPT ![SchedulerOf[c]] = @ \cup {QueueOf[c]}]
  BY DEF RegisterWorkflow, Goto, HasWorker
<1>2. ASSUME NEW s \in Schedulers, NEW q \in Queues
      PROVE  IF s = SchedulerOf[c] /\ q = QueueOf[c]
             THEN HasWorkerCount(s, q) = 0 /\ HasWorkerCount(s, q)' = 1
             ELSE HasWorkerCount(s, q)' = HasWorkerCount(s, q)
  BY <1>0, <1>1 DEF HasWorkerCount, TypeOK
<1>3. ASSUME NEW t \in Tasks
      PROVE  TaskStartInv(t)'
  <2>0. TaskStartInv(t) /\ starts[t] \in Nat /\ shutdowns \in Nat
    BY StartTypes DEF StartInv
  <2>1. CASE t = c
    BY <1>0, <1>1, <1>2, <2>0, <2>1
    DEF TaskStartInv, Promised, HasReturned, Final, TypeOK
  <2>2. CASE t # c
    <3>1. /\ pc'[t] = pc[t]
          /\ HasWorkerCount(SchedulerOf[t], QueueOf[t])
                <= HasWorkerCount(SchedulerOf[t], QueueOf[t])'
      BY <1>1, <1>2, <2>2, StartTypes DEF TypeOK, HasWorkerCount
    <3>2. HasWorkerCount(SchedulerOf[t], QueueOf[t]) \in Nat
          /\ HasWorkerCount(SchedulerOf[t], QueueOf[t])' \in Nat
      BY DEF HasWorkerCount
    <3>. QED
      BY <1>1, <2>0, <3>1, <3>2 DEF TaskStartInv, Promised, HasReturned
  <2>. QED
    BY <2>1, <2>2
<1>4. ASSUME NEW s \in Schedulers, NEW q \in Queues
      PROVE  QueueStartInv(s, q)'
  <2>0. /\ Cardinality(Begun(s, q)) <= crashes + shutdowns + HasWorkerCount(s, q)
        /\ crashes \in Nat /\ shutdowns \in Nat
        /\ HasWorkerCount(s, q) \in Nat /\ HasWorkerCount(s, q)' \in Nat
    BY StartTypes DEF StartInv, QueueStartInv, HasWorkerCount
  <2>1. Begun(s, q) \subseteq Tasks /\ Begun(s, q)' \subseteq Tasks
    BY DEF Begun
  <2>2. CASE s = SchedulerOf[c] /\ q = QueueOf[c]
    <3>1. Begun(s, q)' = Begun(s, q) \cup {c}
      BY <1>0, <1>1, <2>2 DEF Begun, TypeOK, Coros
    <3>2. /\ Cardinality(Begun(s, q)) <= crashes + shutdowns
          /\ crashes' + shutdowns' + HasWorkerCount(s, q)' = crashes + shutdowns + 1
      BY <1>2, <2>0, <2>2
    <3>3. Cardinality(Begun(s, q)') <= crashes + shutdowns + 1
      BY <2>0, <2>1, <3>1, <3>2, BegunBounded
    <3>. QED
      BY <3>2, <3>3 DEF QueueStartInv
  <2>3. CASE ~(s = SchedulerOf[c] /\ q = QueueOf[c])
    <3>1. Begun(s, q)' = Begun(s, q)
      BY <1>0, <1>1, <2>3 DEF Begun, TypeOK, Coros
    <3>. QED
      BY <1>2, <2>0, <2>1, <2>3, <3>1, BegunBounded DEF QueueStartInv
  <2>. QED
    BY <2>2, <2>3
<1>. QED
  BY <1>3, <1>4 DEF StartInv

\* Every other step of a coroutine begins no execution that was not about to
\* begin.
LEMMA StartStep ==
    ASSUME TypeOK, StartInv, NEW c \in Coros, Step(c) \/ CallStep(c) \/ FaultStep(c),
           ~(c \in Tasks /\ RegisterWorkflow(c))
    PROVE  StartInv'
<1>0. /\ workers' = workers /\ crashes' = crashes /\ shutdowns' = shutdowns
      /\ faults <= faults' /\ faults' \in Nat
  <2>1. faults' = faults \/ faults' = faults + 1
    BY DEF Step, CallStep, FaultStep, NoFault, Fault
  <2>2. faults \in Nat
    BY SchedulerAssumption DEF TypeOK
  <2>. QED
    BY <2>1, <2>2, StartEffect, OthersKept
<1>1. \A s, q : HasWorkerCount(s, q)' = HasWorkerCount(s, q)
  BY <1>0 DEF HasWorkerCount
<1>2. ASSUME NEW t \in Tasks
      PROVE  /\ TaskStartInv(t)'
             /\ starts'[t] > 0 \/ pc'[t] = "start" => starts[t] > 0 \/ pc[t] = "start"
  <2>0. /\ TaskStartInv(t) /\ starts[t] \in Nat /\ shutdowns \in Nat /\ faults \in Nat
        /\ HasWorkerCount(SchedulerOf[t], QueueOf[t]) \in {0, 1}
        /\ t \in Coros
    BY StartTypes DEF StartInv, HasWorkerCount
  <2>1. CASE t # c
    <3>1. /\ pc'[t] = pc[t] \/ (pc[t] = "waiting" /\ pc'[t] = "retry")
          /\ starts'[t] = starts[t] /\ ran'[t] = ran[t]
      BY <2>0, <2>1, OthersKept
    <3>. QED
      BY <1>0, <1>1, <2>0, <3>1 DEF TaskStartInv, Promised, HasReturned, Final
  <2>2. CASE t = c
    <3>1. /\ pc[t] \notin Final /\ pc'[t] # "idle" /\ pc'[t] # "start"
          /\ starts'[t] = starts[t] \/ (pc[t] = "start"
                                        /\ starts'[t] \in {starts[t], starts[t] + 1})
          /\ \/ HasReturned(t)'
             \/ ~HasReturned(t) /\ starts'[t] = starts[t]
             \/ faults' = faults + 1
      BY <2>2, StartEffect
    <3>2. /\ starts'[t] <= Promised(t) /\ starts'[t] \in Nat
          /\ starts'[t] > 0 => starts[t] > 0 \/ pc[t] = "start"
      BY <2>0, <3>1 DEF Promised
    <3>3. starts'[t] <= shutdowns + HasWorkerCount(SchedulerOf[t], QueueOf[t])
      BY <2>0, <3>1, <3>2 DEF TaskStartInv, Promised
    <3>4. Promised(t)' = starts'[t]
      BY <3>1, <3>2 DEF Promised
    <3>5. starts'[t] <= faults' + IF HasReturned(t)' THEN 1 ELSE 0
      <4>1. pc[t] = "start" => ~HasReturned(t)
        BY DEF HasReturned, Final
      <4>. QED
        BY <1>0, <2>0, <3>1, <3>2, <4>1 DEF TaskStartInv
    <3>. QED
      BY <1>0, <1>1, <2>0, <3>1, <3>2, <3>3, <3>4, <3>5 DEF TaskStartInv
  <2>. QED
    BY <2>1, <2>2
<1>3. ASSUME NEW s \in Schedulers, NEW q \in Queues
      PROVE  QueueStartInv(s, q)'
  <2>1. Begun(s, q)' \subseteq Begun(s, q) /\ Begun(s, q) \subseteq Tasks
    BY <1>2 DEF Begun
  <2>2. /\ Cardinality(Begun(s, q)) <= crashes + shutdowns + HasWorkerCount(s, q)
        /\ crashes + shutdowns + HasWorkerCount(s, q) \in Nat
    BY SchedulerAssumption DEF StartInv, QueueStartInv, TypeOK, HasWorkerCount
  <2>. QED
    BY <1>0, <1>1, <2>1, <2>2, BegunBounded DEF QueueStartInv
<1>. QED
  BY <1>2, <1>3 DEF StartInv

\* A crash allows each queue of the process one more start.
LEMMA StartCrash ==
    ASSUME TypeOK, StartInv, NEW p \in Procs, Crash(p)
    PROVE  StartInv'
<1>0. /\ crashes' = crashes + 1 /\ starts' = starts /\ ran' = ran
      /\ shutdowns' = shutdowns /\ faults' = faults
      /\ crashes \in Nat /\ shutdowns \in Nat /\ faults \in Nat
  BY SchedulerAssumption DEF Crash, TypeOK
<1>1. ASSUME NEW t \in Tasks
      PROVE  /\ TaskStartInv(t)'
             /\ starts'[t] > 0 \/ pc'[t] = "start" => starts[t] > 0 \/ pc[t] = "start"
  <2>0. /\ t \in Coros /\ SchedulerOf[t] \in Schedulers /\ starts[t] \in Nat
        /\ TaskStartInv(t)
        /\ HasWorkerCount(SchedulerOf[t], QueueOf[t])' \in {0, 1}
    BY StartTypes DEF StartInv, HasWorkerCount
  <2>1. pc'[t] = "dead" \/ pc'[t] = pc[t]
    BY <2>0 DEF Crash, TypeOK
  <2>2. CASE pc'[t] \in Final
    BY <1>0, <2>0, <2>1, <2>2 DEF TaskStartInv, HasReturned, Promised, Final
  <2>3. CASE pc'[t] = "idle"
    BY <1>0, <2>0, <2>1, <2>3 DEF TaskStartInv, HasReturned, Promised, Final
  <2>4. CASE pc'[t] \notin Final \cup {"idle"}
    <3>1. pc'[t] = pc[t] /\ ProcOf[t] # p
      BY <2>0, <2>1, <2>4 DEF Crash, TypeOK, Final
    <3>2. SchedulerOf[t] \notin SchedulersIn(p)
      BY <3>1, SchedulerAssumption DEF SchedulersIn
    <3>3. HasWorkerCount(SchedulerOf[t], QueueOf[t])'
             = HasWorkerCount(SchedulerOf[t], QueueOf[t])
      BY <2>0, <3>2 DEF Crash, HasWorkerCount
    <3>. QED
      BY <1>0, <2>0, <3>1, <3>3 DEF TaskStartInv, HasReturned, Promised
  <2>. QED
    BY <2>2, <2>3, <2>4
<1>2. ASSUME NEW s \in Schedulers, NEW q \in Queues
      PROVE  QueueStartInv(s, q)'
  <2>1. /\ Begun(s, q)' \subseteq Begun(s, q) /\ Begun(s, q) \subseteq Tasks
        /\ Begun(s, q)' \subseteq Tasks
    BY <1>1 DEF Begun
  <2>2. /\ Cardinality(Begun(s, q)) <= crashes + shutdowns + HasWorkerCount(s, q)
        /\ HasWorkerCount(s, q) \in {0, 1} /\ HasWorkerCount(s, q)' \in {0, 1}
    BY DEF StartInv, QueueStartInv, HasWorkerCount
  <2>. QED
    BY <1>0, <2>1, <2>2, BegunBounded DEF QueueStartInv
<1>. QED
  BY <1>1, <1>2 DEF StartInv

\* So does a shutdown, for the queue whose worker it takes away.
LEMMA StartShutdown ==
    ASSUME TypeOK, StartInv, NEW z \in Schedulers, NEW w \in Queues,
           ShutdownWorker(z, w)
    PROVE  StartInv'
<1>0. /\ shutdowns' = shutdowns + 1 /\ pc' = pc /\ starts' = starts /\ ran' = ran
      /\ crashes' = crashes /\ faults' = faults
      /\ crashes \in Nat /\ shutdowns \in Nat /\ faults \in Nat
  BY SchedulerAssumption DEF ShutdownWorker, ctlVars, TypeOK
<1>1. ASSUME NEW s \in Schedulers, NEW q \in Queues
      PROVE  /\ HasWorkerCount(s, q) \in {0, 1} /\ HasWorkerCount(s, q)' \in {0, 1}
  BY DEF HasWorkerCount
<1>2. ASSUME NEW t \in Tasks
      PROVE  TaskStartInv(t)'
  <2>1. /\ TaskStartInv(t) /\ starts[t] \in Nat
        /\ HasWorkerCount(SchedulerOf[t], QueueOf[t]) \in {0, 1}
        /\ HasWorkerCount(SchedulerOf[t], QueueOf[t])' \in {0, 1}
    BY <1>1, StartTypes DEF StartInv
  <2>2. Promised(t)' = Promised(t) /\ Promised(t) \in Nat
        /\ (HasReturned(t)' <=> HasReturned(t))
    BY <1>0, <2>1 DEF Promised, HasReturned
  <2>. QED
    BY <1>0, <2>1, <2>2 DEF TaskStartInv
<1>3. ASSUME NEW s \in Schedulers, NEW q \in Queues
      PROVE  QueueStartInv(s, q)'
  <2>1. Begun(s, q)' = Begun(s, q) /\ Begun(s, q) \subseteq Tasks
    BY <1>0 DEF Begun
  <2>2. Cardinality(Begun(s, q)) <= crashes + shutdowns + HasWorkerCount(s, q)
    BY DEF StartInv, QueueStartInv
  <2>. QED
    BY <1>0, <1>1, <2>1, <2>2, BegunBounded DEF QueueStartInv
<1>. QED
  BY <1>2, <1>3 DEF StartInv

\* The bound on the starts is inductive.
LEMMA StartNext == TypeOK /\ StartInv /\ [Next]_vars => StartInv'
<1>. SUFFICES ASSUME TypeOK, StartInv, [Next]_vars
              PROVE  StartInv'
  OBVIOUS
<1>1. CASE UNCHANGED vars \/ Terminating
  BY <1>1 DEF Terminating, vars, ctlVars, schedVars, StartInv, TaskStartInv, Begun,
              QueueStartInv, HasWorkerCount, Promised, HasReturned
<1>2. ASSUME NEW c \in Coros, Step(c) \/ CallStep(c) \/ FaultStep(c)
      PROVE  StartInv'
  <2>1. CASE c \in Tasks /\ RegisterWorkflow(c)
    <3>1. crashes' = crashes /\ shutdowns' = shutdowns
      BY <1>2, OthersKept
    <3>2. faults' = faults
      <4>1. pc[c] = "granted" /\ pc'[c] = "start"
        BY <2>1 DEF RegisterWorkflow, Goto, TypeOK, Coros
      <4>2. ~FaultStep(c)
        BY <2>1, <4>1, ControllerAssumption
        DEF FaultStep, StorageFails, ReadFails, UpdateFails, TaskFault, SubmitFails,
            GetTaskFails, GiveUpFails, WorkerFails, StartFails, Leave, CallRelease, Goto,
            TypeOK, Coros
      <4>. QED
        BY <1>2, <4>2 DEF Step, CallStep, NoFault
    <3>. QED
      BY <2>1, <3>1, <3>2, StartRegister
  <2>2. CASE ~(c \in Tasks /\ RegisterWorkflow(c))
    BY <1>2, <2>2, StartStep
  <2>. QED
    BY <2>1, <2>2
<1>3. ASSUME NEW p \in Procs, Crash(p)
      PROVE  StartInv'
  BY <1>3, StartCrash
<1>4. CASE Shutdown
  BY <1>4, StartShutdown DEF Shutdown
<1>. QED
  BY <1>1, <1>2, <1>3, <1>4 DEF Next

\* At first nothing has begun.
LEMMA StartInit == Init => StartInv
<1>. SUFFICES ASSUME Init
              PROVE  StartInv
  OBVIOUS
<1>1. \A t \in Tasks : t \in Coros /\ starts[t] = 0 /\ pc[t] = "idle"
  BY DEF Init, CtlInit, Coros
<1>2. \A s, q : Begun(s, q) = {}
  BY <1>1 DEF Begun
<1>3. crashes = 0 /\ shutdowns = 0 /\ faults = 0
  BY DEF Init
<1>. QED
  BY <1>1, <1>2, <1>3, FS_EmptySet
  DEF StartInv, TaskStartInv, QueueStartInv, HasWorkerCount, Promised, HasReturned, Final

\* Whatever is lost, refused, tried again or shut down, a scheduler starts no
\* more workflows of a queue than crashes and shutdowns allow, and a task more
\* than once only if a call raised and a worker was shut down.
THEOREM StartsAreBounded == Spec => []StartsBounded
<1>1. ASSUME TypeOK, StartInv
      PROVE  StartsBounded
  <2>1. ASSUME NEW s \in Schedulers, NEW q \in Queues
        PROVE  Cardinality(StartedOn(s, q)) <= 1 + crashes + shutdowns
    <3>1. StartedOn(s, q) \subseteq Begun(s, q)
          /\ Begun(s, q) \subseteq Tasks /\ StartedOn(s, q) \subseteq Tasks
      BY DEF StartedOn, Begun
    <3>2. /\ Cardinality(Begun(s, q)) <= crashes + shutdowns + HasWorkerCount(s, q)
          /\ HasWorkerCount(s, q) \in {0, 1} /\ crashes \in Nat /\ shutdowns \in Nat
      BY <1>1, SchedulerAssumption DEF StartInv, QueueStartInv, HasWorkerCount, TypeOK
    <3>. QED
      BY <3>1, <3>2, BegunBounded
  <2>2. ASSUME NEW t \in Tasks
        PROVE  starts[t] <= 1 + shutdowns /\ starts[t] <= 1 + faults
    BY <1>1, StartTypes DEF StartInv, TaskStartInv
  <2>. QED
    BY <2>1, <2>2 DEF StartsBounded
<1>. QED
  BY <1>1, StartInit, StartNext, TypeCorrect, PTL DEF Spec

-----------------------------------------------------------------------------
(* The slot and the outcome, until a recovery asks for a slot *)

\* What a submit_task knows of its task's row and workflow at each of its
\* awaits: the release has been written before the return, a RUNNING row is
\* its own grant or what a lost call left behind, and a workflow that began
\* with no call lost is reported by the release that follows it at once.
SubmitInv(t) ==
    /\ target[t] = t
    /\ status[t] = "running" =>
          \/ pc[t] \in {"granted", "start", "release"}
          \/ /\ faults + crashes > 0
             /\ pc[t] \notin {"idle", "saved", "load", "next", "refused",
                              "freed", "done", "record"}
    /\ pc[t] = "freed" => status[t] = "released"
    /\ pc[t] \in {"release", "freed"} /\ ran[t] => starts[t] > 0
    /\ faults = 0 /\ starts[t] > 0 =>
          \/ pc[t] \in {"release", "freed"} /\ ran[t]
          \/ pc[t] \in {"done", "dead"}
    /\ pc[t] = "done" =>
          \/ status[t] = "released" /\ starts[t] > 0
          \/ status[t] = "pending" /\ (faults = 0 => starts[t] = 0)

\* A recovery that has not asked for a slot is at none of the controller's
\* awaits.
QuietInv ==
    \A r \in Recoverers :
        calls[r] = 0 => pc[r] \in {"idle", "pick", "done", "failed", "dead"}

OwnInv ==
    /\ QuietInv
    /\ NothingRecovered => \A t \in Tasks : SubmitInv(t)

\* Inside the controller the row follows the place, except that a wait leaves
\* a RUNNING row a lost call left behind.
LEMMA OwnController ==
    ASSUME TypeOK, NEW c \in Tasks, SubmitInv(c), ControllerStep(c),
           UNCHANGED schedVars, NoFault
    PROVE  SubmitInv(c)'
<1>. USE DEF TypeOK, TableTypeOK, Goto, schedVars, NoFault, SubmitInv, UpdateTaskStatus
<1>0. c \in Coros
  BY DEF Coros
<1>1. CASE NoQueueRow(c) \/ SlotFree(c) \/ EnterWait(c) \/ WaitExpires(c)
  BY <1>0, <1>1 DEF NoQueueRow, SlotFree, EnterWait, WaitExpires
<1>2. CASE GrantSlot(c)
  BY <1>0, <1>2 DEF GrantSlot
<1>3. CASE HandleTimeout(c) \/ ScheduleRetry(c)
  BY <1>0, <1>3 DEF HandleTimeout, ScheduleRetry, RecordRetryAttempt
<1>4. CASE ReleaseSlot(c)
  <2>1. /\ pc[c] = "release" /\ pc'[c] = "freed" /\ status'[c] = "released"
        /\ target' = target
    BY <1>0, <1>4 DEF ReleaseSlot, WakeNext
  <2>. QED
    BY <2>1
<1>. QED
  BY <1>1, <1>2, <1>3, <1>4 DEF ControllerStep

\* The steps of submit_task outside the controller that raise nothing.
LEMMA OwnTaskStep ==
    ASSUME TypeOK, NEW c \in Tasks, SubmitInv(c), TaskStep(c) \/ SubmitTask(c), NoFault
    PROVE  SubmitInv(c)'
<1>. USE DEF TypeOK, TableTypeOK, Goto, schedVars, NoFault, SubmitInv
<1>0. c \in Coros
  BY DEF Coros
<1>1. CASE SubmitTask(c) \/ AddJob(c) \/ GetTaskWithRetry(c)
  BY <1>0, <1>1 DEF SubmitTask, InsertRow, AddJob, GetTaskWithRetry
<1>2. CASE NextAttempt(c)
  BY <1>0, <1>2 DEF NextAttempt, AtLoopHead, CallAcquire
<1>3. CASE AttemptsOver(c) \/ Return(c)
  BY <1>0, <1>3 DEF AttemptsOver, AtLoopHead, Return
<1>4. CASE GiveUp(c)
  BY <1>0, <1>4 DEF GiveUp, UpdateTaskStatus
<1>5. CASE TranslateFails(c) \/ RegisterRefused(c)
  BY <1>0, <1>5 DEF TranslateFails, RegisterRefused, Leave, CallRelease
<1>6. CASE RegisterWorkflow(c)
  BY <1>0, <1>6 DEF RegisterWorkflow
<1>7. CASE StartWorkflow(c)
  <2>1. /\ pc[c] = "start" /\ pc'[c] = "release" /\ ran'[c] = TRUE
        /\ target' = target /\ status' = status
    BY <1>0, <1>7 DEF StartWorkflow, Leave, CallRelease
  <2>2. starts'[c] > 0
    BY <1>7 DEF StartWorkflow, StartOutcomes
  <2>. QED
    BY <2>1, <2>2
<1>. QED
  BY <1>1, <1>2, <1>3, <1>4, <1>5, <1>6, <1>7 DEF TaskStep

\* A call that raises never lets submit_task return normally, and a row it
\* leaves RUNNING is not met where none may be.
LEMMA OwnFault ==
    ASSUME TypeOK, NEW c \in Tasks, SubmitInv(c), Fault,
           TaskFault(c) \/ (StorageFails(c) /\ UNCHANGED schedVars)
    PROVE  SubmitInv(c)'
<1>. USE DEF TypeOK, TableTypeOK, Goto, schedVars, SubmitInv, UpdateTaskStatusRaises,
         UpdateTaskStatus
<1>0. c \in Coros /\ faults' > 0 /\ faults' + crashes' > 0
  BY SchedulerAssumption DEF Coros, Fault
<1>1. CASE StorageFails(c) /\ UNCHANGED schedVars
  BY <1>0, <1>1 DEF StorageFails, ReadFails, UpdateFails
<1>2. CASE SubmitFails(c) \/ GetTaskFails(c) \/ GiveUpFails(c)
  BY <1>0, <1>2 DEF SubmitFails, InsertRow, GetTaskFails, GiveUpFails
<1>3. CASE WorkerFails(c) \/ StartFails(c)
  BY <1>0, <1>3 DEF WorkerFails, StartFails, Leave, CallRelease
<1>. QED
  BY <1>1, <1>2, <1>3 DEF TaskFault

\* Faults are only added.
LEMMA MoreFaults ==
    ASSUME NEW a \in Nat, NEW b \in Nat, NEW d \in Nat, a <= b
    PROVE  (a + d > 0 => b + d > 0) /\ (b = 0 => a = 0)
OBVIOUS

\* A submission does not see what leaves its own variables alone, but for a
\* wake-up and the faults.
LEMMA OwnKept ==
    ASSUME TypeOK, NEW t \in Tasks, SubmitInv(t),
           pc'[t] = pc[t] \/ (pc[t] = "waiting" /\ pc'[t] = "retry"),
           target'[t] = target[t], ran'[t] = ran[t], starts'[t] = starts[t],
           status'[t] = status[t], crashes' = crashes,
           faults <= faults', faults' \in Nat
    PROVE  SubmitInv(t)'
<1>1. faults \in Nat /\ crashes \in Nat
  BY SchedulerAssumption DEF TypeOK
<1>2. /\ faults + crashes > 0 => faults' + crashes > 0
      /\ faults' = 0 => faults = 0
  BY <1>1, MoreFaults
<1>3. CASE pc'[t] = pc[t]
  BY <1>2, <1>3 DEF SubmitInv
<1>4. CASE pc[t] = "waiting" /\ pc'[t] = "retry"
  BY <1>2, <1>4 DEF SubmitInv
<1>. QED
  BY <1>3, <1>4

\* What another submission does is not seen.
LEMMA OwnOthers ==
    ASSUME TypeOK, NEW c \in Tasks, NEW t \in Tasks, t # c,
           Step(c) \/ CallStep(c) \/ FaultStep(c), SubmitInv(t), target[c] = c
    PROVE  SubmitInv(t)'
<1>1. /\ pc'[t] = pc[t] \/ (pc[t] = "waiting" /\ pc'[t] = "retry")
      /\ target'[t] = target[t] /\ ran'[t] = ran[t] /\ starts'[t] = starts[t]
      /\ status'[t] = status[t] /\ crashes' = crashes /\ faults <= faults'
  BY OthersKept DEF Coros
<1>2. faults' \in Nat
  BY SchedulerAssumption DEF TypeOK, Step, CallStep, FaultStep, NoFault, Fault
<1>. QED
  BY <1>1, <1>2, OwnKept

\* A task killed with its process has not returned.
LEMMA OwnCrash ==
    ASSUME TypeOK, NEW t \in Tasks, NEW p \in Procs, SubmitInv(t), Crash(p)
    PROVE  SubmitInv(t)'
<1>1. /\ target' = target /\ status' = status /\ ran' = ran /\ starts' = starts
      /\ faults' = faults /\ crashes' = crashes + 1
      /\ pc'[t] = pc[t] \/ pc'[t] = "dead"
  BY DEF Crash, Coros, TypeOK
<1>2. faults \in Nat /\ crashes \in Nat /\ starts[t] \in Nat
  BY SchedulerAssumption DEF TypeOK
<1>. QED
  BY <1>1, <1>2 DEF SubmitInv

\* Until it asks for a slot a recovery writes no row.
LEMMA QuietStep ==
    ASSUME TypeOK, QuietInv, NEW r \in Recoverers,
           Step(r) \/ CallStep(r) \/ FaultStep(r), calls'[r] = 0
    PROVE  /\ calls[r] = 0 /\ status' = status
           /\ pc'[r] \in {"idle", "pick", "done", "failed", "dead"}
<1>. USE DEF TypeOK, Goto, schedVars
<1>0. r \in Coros /\ r \notin Tasks /\ calls[r] \in Nat
  BY ControllerAssumption DEF Coros
<1>1. ~RecoverTask(r)
  <2>. SUFFICES ASSUME NEW t, CallAcquire(r, t)
                PROVE  FALSE
    BY DEF RecoverTask
  <2>1. calls' = [calls EXCEPT ![r] = calls[r] + 1]
    BY DEF CallAcquire
  <2>2. calls'[r] = calls[r] + 1
    BY <1>0, <2>1
  <2>. QED
    BY <1>0, <2>2
<1>2. calls[r] = 0
  <2>1. CASE ControllerStep(r) \/ StorageFails(r)
    BY <2>1 DEF StorageFails, ControllerStep, NoQueueRow, SlotFree, EnterWait,
                GrantSlot, WaitExpires, HandleTimeout, ScheduleRetry, RecordRetryAttempt,
                ReleaseSlot
  <2>2. CASE RecoveryStep(r) \/ StartRecovery(r) \/ RecoveryLoadFails(r)
    BY <1>1, <2>2 DEF RecoveryStep, RecoveryOver, RecoveryRaises, StartRecovery,
                      RecoveryLoadFails
  <2>. QED
    BY <1>0, <2>1, <2>2 DEF Step, CallStep, FaultStep
<1>3. pc[r] \in {"idle", "pick", "done", "failed", "dead"}
  BY <1>2 DEF QuietInv
<1>4. ~ControllerStep(r) /\ ~StorageFails(r)
  BY <1>3
  DEF ControllerStep, NoQueueRow, SlotFree, EnterWait, GrantSlot, WaitExpires,
      HandleTimeout, ScheduleRetry, RecordRetryAttempt,
      ReleaseSlot, StorageFails, ReadFails, UpdateFails
<1>5. CASE RecoveryOver(r) \/ RecoveryRaises(r) \/ StartRecovery(r) \/ RecoveryLoadFails(r)
  BY <1>0, <1>2, <1>5 DEF RecoveryOver, RecoveryRaises, StartRecovery, RecoveryLoadFails
<1>. QED
  BY <1>0, <1>1, <1>4, <1>5 DEF Step, CallStep, FaultStep, RecoveryStep

\* So a submission does not see it.
LEMMA OwnRecovery ==
    ASSUME TypeOK, QuietInv, NEW r \in Recoverers, NEW t \in Tasks, SubmitInv(t),
           Step(r) \/ CallStep(r) \/ FaultStep(r), calls'[r] = 0
    PROVE  SubmitInv(t)'
<1>0. r \in Coros /\ t \in Coros /\ t # r
  BY ControllerAssumption DEF Coros
<1>1. /\ pc'[t] = pc[t] \/ (pc[t] = "waiting" /\ pc'[t] = "retry")
      /\ target'[t] = target[t] /\ ran'[t] = ran[t] /\ starts'[t] = starts[t]
      /\ status'[t] = status[t] /\ crashes' = crashes /\ faults <= faults'
  <2>1. status' = status
    BY QuietStep
  <2>. QED
    BY <1>0, <2>1, OthersKept
<1>2. faults' \in Nat
  BY SchedulerAssumption DEF TypeOK, Step, CallStep, FaultStep, NoFault, Fault
<1>. QED
  BY <1>1, <1>2, OwnKept

\* A recovery that has not asked for a slot stays away from the controller
\* until it does.
LEMMA QuietNext == TypeOK /\ QuietInv /\ [Next]_vars => QuietInv'
<1>. SUFFICES ASSUME TypeOK, QuietInv, [Next]_vars, NEW r \in Recoverers,
                     calls'[r] = 0
              PROVE  pc'[r] \in {"idle", "pick", "done", "failed", "dead"}
  BY DEF QuietInv
<1>0. r \in Coros
  BY DEF Coros
<1>1. CASE UNCHANGED vars \/ Terminating \/ Shutdown
  BY <1>1 DEF Terminating, Shutdown, ShutdownWorker, vars, ctlVars,
              QuietInv
<1>2. ASSUME NEW c \in Coros, Step(c) \/ CallStep(c) \/ FaultStep(c), c # r
      PROVE  pc'[r] \in {"idle", "pick", "done", "failed", "dead"}
  BY <1>0, <1>2, OthersKept DEF QuietInv
<1>3. CASE Step(r) \/ CallStep(r) \/ FaultStep(r)
  BY <1>3, QuietStep
<1>4. ASSUME NEW p \in Procs, Crash(p)
      PROVE  pc'[r] \in {"idle", "pick", "done", "failed", "dead"}
  BY <1>0, <1>4 DEF Crash, QuietInv, TypeOK
<1>. QED
  BY <1>1, <1>2, <1>3, <1>4 DEF Next

\* A coroutine that has asked for a slot has asked for ever.
LEMMA NothingRecoveredBefore ==
    TypeOK /\ QuietInv /\ [Next]_vars /\ NothingRecovered' => NothingRecovered
<1>. SUFFICES ASSUME TypeOK, QuietInv, [Next]_vars, NEW r \in Recoverers, calls'[r] = 0
              PROVE  calls[r] = 0
  BY DEF NothingRecovered
<1>0. r \in Coros
  BY DEF Coros
<1>1. CASE UNCHANGED vars \/ Terminating \/ Shutdown \/ \E p \in Procs : Crash(p)
  BY <1>1 DEF Terminating, Shutdown, ShutdownWorker, vars, ctlVars, Crash
<1>2. CASE \E c \in Coros : Step(c) \/ CallStep(c) \/ FaultStep(c)
  BY <1>0, <1>2, OthersKept, QuietStep
<1>. QED
  BY <1>1, <1>2 DEF Next

\* Every step keeps what each submission knows.
LEMMA OwnNext == TypeOK /\ OwnInv /\ [Next]_vars => OwnInv'
<1>. SUFFICES ASSUME TypeOK, QuietInv, NothingRecovered, NothingRecovered',
                     \A t \in Tasks : SubmitInv(t), [Next]_vars,
                     NEW t \in Tasks
              PROVE  SubmitInv(t)'
  BY QuietNext, NothingRecoveredBefore DEF OwnInv
<1>1. CASE UNCHANGED vars \/ Terminating \/ Shutdown
  BY <1>1 DEF Terminating, Shutdown, ShutdownWorker, vars, ctlVars,
              schedVars, SubmitInv
<1>2. ASSUME NEW c \in Coros, Step(c) \/ CallStep(c) \/ FaultStep(c)
      PROVE  SubmitInv(t)'
  <2>1. CASE c \in Recoverers
    BY <1>2, <2>1, OwnRecovery DEF NothingRecovered
  <2>2. CASE c \in Tasks /\ t # c
    BY <1>2, <2>2, OwnOthers DEF SubmitInv
  <2>3. CASE c \in Tasks /\ t = c
    <3>0. c \notin Recoverers
      BY <2>3, ControllerAssumption
    <3>1. CASE Step(c)
      BY <2>3, <3>0, <3>1, OwnController, OwnTaskStep DEF Step
    <3>2. CASE CallStep(c)
      BY <2>3, <3>0, <3>2, OwnTaskStep DEF CallStep
    <3>3. CASE FaultStep(c)
      BY <2>3, <3>0, <3>3, OwnFault DEF FaultStep
    <3>. QED
      BY <1>2, <3>1, <3>2, <3>3
  <2>. QED
    BY <2>1, <2>2, <2>3 DEF Coros
<1>3. ASSUME NEW p \in Procs, Crash(p)
      PROVE  SubmitInv(t)'
  BY <1>3, OwnCrash
<1>. QED
  BY <1>1, <1>2, <1>3 DEF Next

\* Before it is called a submission owns nothing.
LEMMA OwnInit == Init => OwnInv
BY DEF Init, CtlInit, TableInit, OwnInv, QuietInv, SubmitInv, Coros

\* Until a recovery asks for slots, one is held only by the attempt it went to,
\* unless a call raised or a process died; never by a submit_task that returned.
THEOREM SlotsHaveOwners == Spec => []SlotHasOwner
<1>1. OwnInv => SlotHasOwner
  BY DEF OwnInv, SubmitInv, SlotHasOwner
<1>. QED
  BY <1>1, OwnInit, OwnNext, TypeCorrect, PTL DEF Spec

\* Until a recovery asks for slots, a submit_task that returns leaves its task
\* RELEASED with its workflow begun, or PENDING; PENDING and begun only if a
\* call raised.
THEOREM OutcomesAreRecorded == Spec => []OutcomeRecorded
<1>1. OwnInv => OutcomeRecorded
  BY DEF OwnInv, SubmitInv, OutcomeRecorded
<1>. QED
  BY <1>1, OwnInit, OwnNext, TypeCorrect, PTL DEF Spec
=============================================================================
