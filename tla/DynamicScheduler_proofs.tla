----------------------- MODULE DynamicScheduler_proofs ----------------------
(***************************************************************************)
(* Theorems about DynamicScheduler, for any number of tasks, queues,        *)
(* processes, recoveries, faults and crashes.                               *)
(***************************************************************************)
EXTENDS DynamicScheduler, FiniteSetTheorems, FunctionTheorems, TLAPS

-----------------------------------------------------------------------------
(* The inductive invariant *)

\* A coroutine inside a critical section is the head of its lock's queue.
LockInv == \A c \in Coros : pc[c] \in Critical => Holds(c)

\* An event is never older than its creator's current acquire_slot call;
\* while that call waits, its event lies in the pending set of its own queue.
EventInv ==
    \A k \in Locks : \A e \in pending[k] : \A c \in Coros :
        e[2][1] = c =>
            /\ e[2][2] <= calls[c]
            /\ e[2][2] = calls[c] => pc[c] # "acquire"
            /\ e[2][2] = calls[c] /\ pc[c] = "waiting" => k = Slot(c)

\* The coroutines that have seen a free slot of q and not yet taken it.
Granting(q) == {c \in Coros : pc[c] = "granting" /\ QueueName(c) = q}

\* Slots taken and slots promised never exceed the capacity together.
GrantInv ==
    \A q \in Queues :
        Cardinality(Running(q)) + Cardinality(Granting(q)) <= SlotCap(q)

-----------------------------------------------------------------------------
(* Locks *)

\* The lock a coroutine asks for is one of the table's.
LEMMA SlotType ==
    ASSUME TypeOK, NEW c \in Coros
    PROVE  Slot(c) \in Locks /\ QueueName(c) \in Queues /\ target[c] \in Tasks
BY TableAssumption, ControllerAssumption DEF TypeOK, Slot, QueueName, Locks

\* Giving a lock back keeps the queues well formed and touches no other lock.
LEMMA UnlockEffect ==
    ASSUME TypeOK, NEW c \in Coros, Holds(c), Unlock(c)
    PROVE  /\ lockQ' \in [Locks -> Seq(Coros)]
           /\ \A k \in Locks : k # Slot(c) => lockQ'[k] = lockQ[k]
<1>1. Slot(c) \in Locks
  BY SlotType
<1>2. lockQ[Slot(c)] \in Seq(Coros) /\ lockQ[Slot(c)] # <<>>
  BY <1>1 DEF TypeOK, Holds
<1>3. Tail(lockQ[Slot(c)]) \in Seq(Coros)
  BY <1>2
<1>. QED
  BY <1>1, <1>3 DEF TypeOK, Unlock

\* Joining a lock's queue keeps its head.
LEMMA AppendEffect ==
    ASSUME TypeOK, NEW c \in Coros, NEW k \in Locks,
           lockQ' = [lockQ EXCEPT ![k] = Append(@, c)]
    PROVE  /\ lockQ' \in [Locks -> Seq(Coros)]
           /\ \A l \in Locks : lockQ[l] # <<>> =>
                 lockQ'[l] # <<>> /\ Head(lockQ'[l]) = Head(lockQ[l])
<1>1. lockQ \in [Locks -> Seq(Coros)]
  BY DEF TypeOK
<1>2. Append(lockQ[k], c) \in Seq(Coros)
  BY <1>1
<1>3. lockQ[k] # <<>> => Append(lockQ[k], c) # <<>>
                         /\ Head(Append(lockQ[k], c)) = Head(lockQ[k])
  BY <1>1
<1>. QED
  BY <1>1, <1>2, <1>3

\* The holder leaves its lock, and nobody enters a critical section.
LEMMA LeaveLock ==
    ASSUME TypeOK, LockInv, NEW c \in Coros, Holds(c), Unlock(c),
           target' = target, pc'[c] \notin Critical,
           \A d \in Coros : pc'[d] \in Critical => pc[d] \in Critical
    PROVE  LockInv' /\ lockQ' \in [Locks -> Seq(Coros)]
<1>1. lockQ' \in [Locks -> Seq(Coros)]
  BY UnlockEffect
<1>2. ASSUME NEW d \in Coros, pc'[d] \in Critical
      PROVE  Holds(d)'
  <2>1. d # c /\ Holds(d)
    BY <1>2 DEF LockInv
  <2>2. Slot(d) # Slot(c)
    BY <2>1 DEF Holds
  <2>3. lockQ'[Slot(d)] = lockQ[Slot(d)]
    BY <2>2, SlotType, UnlockEffect
  <2>4. Slot(d)' = Slot(d)
    BY DEF Slot
  <2>. QED
    BY <2>1, <2>3, <2>4 DEF Holds
<1>. QED
  BY <1>1, <1>2 DEF LockInv

\* A coroutine outside every critical section joins a lock's queue.
LEMMA JoinLock ==
    ASSUME TypeOK, LockInv, NEW c \in Coros, NEW k \in Locks,
           lockQ' = [lockQ EXCEPT ![k] = Append(@, c)],
           pc'[c] \notin Critical,
           \A d \in Coros : d # c => pc'[d] = pc[d] /\ target'[d] = target[d]
    PROVE  LockInv' /\ lockQ' \in [Locks -> Seq(Coros)]
<1>1. ASSUME NEW d \in Coros, pc'[d] \in Critical
      PROVE  Holds(d)'
  <2>1. d # c /\ Holds(d)
    BY <1>1 DEF LockInv
  <2>2. Slot(d)' = Slot(d) /\ Slot(d) \in Locks
    BY <2>1, SlotType DEF Slot
  <2>. QED
    BY <2>1, <2>2, AppendEffect DEF Holds
<1>. QED
  BY <1>1, AppendEffect DEF LockInv

\* No lock moves, and whoever is in a critical section holds its lock.
LEMMA KeepLock ==
    ASSUME LockInv, lockQ' = lockQ, target' = target,
           \A d \in Coros : pc'[d] \in Critical => pc[d] \in Critical \/ Holds(d)
    PROVE  LockInv'
BY DEF LockInv, Holds, Slot

-----------------------------------------------------------------------------
(* Types *)

\* The controller's steps keep the types and the lock discipline.
LEMMA TypeLockController ==
    ASSUME TypeOK, LockInv, NEW c \in Coros, ControllerStep(c),
           UNCHANGED schedVars, NoFault
    PROVE  TypeOK' /\ LockInv'
<1>. USE DEF Goto, NoFault, schedVars
<1>1. CASE NoQueueRow(c)
  <2>1. LockInv' /\ lockQ' \in [Locks -> Seq(Coros)]
    BY <1>1, LeaveLock DEF NoQueueRow, Critical, TypeOK
  <2>. QED
    BY <1>1, <2>1 DEF NoQueueRow, TypeOK, TableTypeOK, Places
<1>2. CASE SlotFree(c)
  <2>1. LockInv'
    BY <1>2, KeepLock DEF SlotFree, TypeOK
  <2>. QED
    BY <1>2, <2>1 DEF SlotFree, TypeOK, TableTypeOK, Places, InLock
<1>3. CASE EnterWait(c)
  <2>1. LockInv'
    BY <1>3, KeepLock DEF EnterWait, TypeOK
  <2>2. <<target[c], Event(c)>> \in Tasks \X (Coros \X Nat)
    BY SlotType DEF Event, TypeOK
  <2>3. pending' \in [Locks -> SUBSET (Tasks \X (Coros \X Nat))]
    BY <1>3, <2>2 DEF EnterWait, TypeOK
  <2>. QED
    BY <1>3, <2>1, <2>3 DEF EnterWait, TypeOK, TableTypeOK, Places, InLock
<1>4. CASE GrantSlot(c)
  <2>1. Holds(c)
    BY <1>4 DEF GrantSlot, LockInv, Critical
  <2>2. LockInv' /\ lockQ' \in [Locks -> Seq(Coros)]
    BY <1>4, <2>1, LeaveLock DEF GrantSlot, Critical, TypeOK
  <2>. QED
    BY <1>4, <2>2, SlotType
    DEF GrantSlot, UpdateTaskStatus, TypeOK, TableTypeOK, TaskStatus, Places
<1>5. CASE WaitExpires(c)
  <2>1. LockInv'
    BY <1>5, KeepLock DEF WaitExpires, Critical, TypeOK
  <2>. QED
    BY <1>5, <2>1 DEF WaitExpires, TypeOK, TableTypeOK, Places, InLock
<1>6. CASE HandleTimeout(c)
  <2>1. LockInv'
    BY <1>6, KeepLock DEF HandleTimeout, Critical, TypeOK
  <2>2. pending' \in [Locks -> SUBSET (Tasks \X (Coros \X Nat))]
    BY <1>6 DEF HandleTimeout, TypeOK
  <2>. QED
    BY <1>6, <2>1, <2>2
    DEF HandleTimeout, UpdateTaskStatus, TypeOK, TableTypeOK, TaskStatus, Places, InLock
<1>7. CASE ScheduleRetry(c)
  <2>1. Holds(c)
    BY <1>7 DEF ScheduleRetry, RecordRetryAttempt, LockInv, Critical
  <2>2. LockInv' /\ lockQ' \in [Locks -> Seq(Coros)]
    BY <1>7, <2>1, LeaveLock DEF ScheduleRetry, RecordRetryAttempt, Critical, TypeOK
  <2>. QED
    BY <1>7, <2>2 DEF ScheduleRetry, RecordRetryAttempt, TypeOK, TableTypeOK, Places
<1>8. CASE ReleaseSlot(c)
  <2>1. pc' \in [Coros -> Places] /\ pc'[c] = "freed"
    BY <1>8 DEF ReleaseSlot, WakeNext, TypeOK, Places, InLock
  <2>2. \A d \in Coros : pc'[d] \in Critical => pc[d] \in Critical
    BY <1>8 DEF ReleaseSlot, WakeNext, TypeOK, Critical
  <2>3. LockInv' /\ lockQ' \in [Locks -> Seq(Coros)]
    BY <1>8, <2>1, <2>2, LeaveLock DEF ReleaseSlot, Critical
  <2>4. pending' \in [Locks -> SUBSET (Tasks \X (Coros \X Nat))]
    <3>1. CASE UNCHANGED pending
      BY <3>1 DEF TypeOK
    <3>2. ASSUME NEW e \in pending[Slot(c)],
                 pending' = [pending EXCEPT ![Slot(c)] = @ \ {e}]
          PROVE  pending' \in [Locks -> SUBSET (Tasks \X (Coros \X Nat))]
      BY <3>2, SlotType DEF TypeOK
    <3>. QED
      BY <1>8, <3>1, <3>2 DEF ReleaseSlot, WakeNext
  <2>. QED
    BY <1>8, <2>1, <2>3, <2>4
    DEF ReleaseSlot, UpdateTaskStatus, TypeOK, TableTypeOK, TaskStatus
<1>. QED
  BY <1>1, <1>2, <1>3, <1>4, <1>5, <1>6, <1>7, <1>8 DEF ControllerStep

\* The counters of faults, crashes and shutdowns stay within their bounds.
LEMMA CountersType ==
    ASSUME TypeOK, NoFault \/ Fault
    PROVE  /\ faults' \in 0 .. MaxFaults /\ crashes' \in 0 .. MaxCrashes
           /\ shutdowns' \in 0 .. MaxShutdowns
BY SchedulerAssumption DEF TypeOK, NoFault, Fault

\* Database calls that raise keep the types and the lock discipline.
LEMMA TypeLockStorage ==
    ASSUME TypeOK, LockInv, NEW c \in Coros, StorageFails(c),
           UNCHANGED schedVars, Fault
    PROVE  TypeOK' /\ LockInv'
<1>1. Holds(c)
  BY DEF StorageFails, ReadFails, UpdateFails, LockInv, Critical
<1>2. LockInv' /\ lockQ' \in [Locks -> Seq(Coros)]
  BY <1>1, LeaveLock DEF StorageFails, Critical, TypeOK, Goto
<1>3. status' \in [Tasks -> TaskStatus \cup {"absent"}]
  BY DEF StorageFails, ReadFails, UpdateFails, UpdateTaskStatusRaises,
         UpdateTaskStatus, TypeOK, TableTypeOK, TaskStatus
<1>. QED
  BY <1>2, <1>3, CountersType DEF StorageFails, TypeOK, TableTypeOK, schedVars, Places, Goto

\* So do the steps of submit_task, the calls that raise included.
LEMMA TypeLockTask ==
    ASSUME TypeOK, LockInv, NEW t \in Tasks,
           \/ (TaskStep(t) \/ SubmitTask(t)) /\ NoFault
           \/ TaskFault(t) /\ Fault
    PROVE  TypeOK' /\ LockInv'
<1>. USE DEF Goto, schedVars
<1>a. /\ t \in Coros
      /\ ProcOf[t] \in Procs
      /\ QueueOf[t] \in Queues
      /\ SchedulerOf[t] \in Schedulers
  BY TableAssumption, ControllerAssumption, SchedulerAssumption DEF Coros
<1>b. /\ faults' \in 0 .. MaxFaults /\ crashes' \in 0 .. MaxCrashes
      /\ shutdowns' \in 0 .. MaxShutdowns
  BY CountersType
<1>1. CASE SubmitTask(t) \/ SubmitFails(t)
  <2>1. LockInv'
    BY <1>1, <1>a, KeepLock DEF SubmitTask, SubmitFails, Critical, TypeOK
  <2>. QED
    BY <1>1, <1>a, <1>b, <2>1
    DEF SubmitTask, SubmitFails, InsertRow, TypeOK, TableTypeOK, TaskStatus, Places, Final
<1>2. CASE AddJob(t)
  <2>1. LockInv'
    BY <1>2, <1>a, KeepLock DEF AddJob, Critical, TypeOK
  <2>. QED
    BY <1>2, <1>a, <1>b, <2>1, SchedulerAssumption
    DEF AddJob, TypeOK, TableTypeOK, Places
<1>3. CASE GetTaskWithRetry(t) \/ GetTaskFails(t)
  <2>1. LockInv'
    BY <1>3, <1>a, KeepLock DEF GetTaskWithRetry, GetTaskFails, Critical, TypeOK
  <2>2. limit' \in [Tasks -> Nat]
    <3>1. maxRetries[SchedulerOf[t]] + 1 \in Nat
      BY <1>a DEF TypeOK
    <3>. QED
      BY <1>3, <3>1 DEF GetTaskWithRetry, GetTaskFails, TypeOK
  <2>. QED
    BY <1>3, <1>a, <1>b, <2>1, <2>2
    DEF GetTaskWithRetry, GetTaskFails, TypeOK, TableTypeOK, Places, Final
<1>4. CASE NextAttempt(t)
  <2>1. <<ProcOf[t], QueueOf[t]>> \in Locks
    BY <1>a DEF Locks
  <2>2. LockInv' /\ lockQ' \in [Locks -> Seq(Coros)]
    BY <1>4, <1>a, <2>1, JoinLock DEF NextAttempt, CallAcquire, Critical, TypeOK
  <2>3. calls' \in [Coros -> Nat]
    BY <1>4, <1>a DEF NextAttempt, CallAcquire, TypeOK
  <2>. QED
    BY <1>4, <1>a, <1>b, <2>2, <2>3
    DEF NextAttempt, CallAcquire, TypeOK, TableTypeOK, Places, InLock
<1>5. CASE AttemptsOver(t) \/ Return(t)
  <2>1. LockInv'
    BY <1>5, <1>a, KeepLock DEF AttemptsOver, Return, Critical, TypeOK
  <2>. QED
    BY <1>5, <1>a, <1>b, <2>1
    DEF AttemptsOver, Return, TypeOK, TableTypeOK, Places, Final
<1>6. CASE GiveUp(t) \/ GiveUpFails(t)
  <2>1. LockInv'
    BY <1>6, <1>a, KeepLock DEF GiveUp, GiveUpFails, Critical, TypeOK
  <2>2. status' \in [Tasks -> TaskStatus \cup {"absent"}]
    BY <1>6 DEF GiveUp, GiveUpFails, UpdateTaskStatusRaises, UpdateTaskStatus,
                TypeOK, TableTypeOK, TaskStatus
  <2>3. pc' \in [Coros -> Places]
    BY <1>6, <1>a DEF GiveUp, GiveUpFails, TypeOK, Places, Final
  <2>. QED
    BY <1>6, <1>a, <1>b, <2>1, <2>2, <2>3 DEF GiveUp, GiveUpFails, TypeOK, TableTypeOK
<1>7. CASE RegisterWorkflow(t)
  <2>1. LockInv'
    BY <1>7, <1>a, KeepLock DEF RegisterWorkflow, Critical, TypeOK
  <2>2. workers' \in [Schedulers -> SUBSET Queues]
    BY <1>7, <1>a DEF RegisterWorkflow, TypeOK
  <2>. QED
    BY <1>7, <1>a, <1>b, <2>1, <2>2
    DEF RegisterWorkflow, TypeOK, TableTypeOK, Places
<1>8. ASSUME NEW ok \in BOOLEAN, Leave(t, ok), UNCHANGED workers,
             starts' \in [Tasks -> Nat]
      PROVE  TypeOK' /\ LockInv'
  <2>1. LockInv' /\ lockQ' \in [Locks -> Seq(Coros)]
    BY <1>8, <1>a, SlotType, JoinLock DEF Leave, CallRelease, Critical, TypeOK
  <2>. QED
    BY <1>8, <1>a, <1>b, <2>1 DEF Leave, CallRelease, TypeOK, TableTypeOK, Places, InLock
<1>9. CASE RegisterRefused(t) \/ TranslateFails(t) \/ WorkerFails(t)
  BY <1>8, <1>9 DEF RegisterRefused, TranslateFails, WorkerFails, TypeOK
<1>10. CASE StartWorkflow(t) \/ StartFails(t)
  <2>1. starts[t] \in Nat /\ StartOutcomes(t) \subseteq Nat
    BY DEF StartOutcomes, TypeOK
  <2>2. starts' \in [Tasks -> Nat]
    BY <1>10, <2>1 DEF StartWorkflow, StartFails, TypeOK
  <2>. QED
    BY <1>8, <1>10, <2>2 DEF StartWorkflow, StartFails
<1>. QED
  BY <1>1, <1>2, <1>3, <1>4, <1>5, <1>6, <1>7, <1>9, <1>10 DEF TaskStep, TaskFault

\* So do the steps of recover_cluster_state.
LEMMA TypeLockRecovery ==
    ASSUME TypeOK, LockInv, NEW r \in Recoverers,
           \/ (RecoveryStep(r) \/ StartRecovery(r)) /\ NoFault
           \/ RecoveryLoadFails(r) /\ Fault
    PROVE  TypeOK' /\ LockInv'
<1>. USE DEF Goto, schedVars
<1>a. r \in Coros /\ ProcOf[r] \in Procs
  BY ControllerAssumption DEF Coros
<1>b. /\ faults' \in 0 .. MaxFaults /\ crashes' \in 0 .. MaxCrashes
      /\ shutdowns' \in 0 .. MaxShutdowns
  BY CountersType
<1>1. CASE StartRecovery(r) \/ RecoveryLoadFails(r)
  <2>1. LockInv'
    BY <1>1, <1>a, KeepLock DEF StartRecovery, RecoveryLoadFails, Critical, TypeOK
  <2>2. todo' \in [Recoverers -> SUBSET Tasks]
    <3>1. GetByStatus({"pending"}) \in SUBSET Tasks
      BY DEF GetByStatus
    <3>. QED
      BY <1>1, <3>1 DEF StartRecovery, RecoveryLoadFails, TypeOK
  <2>. QED
    BY <1>1, <1>a, <1>b, <2>1, <2>2
    DEF StartRecovery, RecoveryLoadFails, TypeOK, TableTypeOK, Places, Final
<1>2. CASE RecoverTask(r)
  <2>1. PICK t \in todo[r] : /\ todo' = [todo EXCEPT ![r] = @ \ {t}]
                             /\ CallAcquire(r, t)
    BY <1>2 DEF RecoverTask
  <2>2. t \in Tasks /\ <<ProcOf[r], QueueOf[t]>> \in Locks
    BY <1>a, <2>1, TableAssumption DEF Locks, TypeOK
  <2>3. LockInv' /\ lockQ' \in [Locks -> Seq(Coros)]
    BY <1>a, <2>1, <2>2, JoinLock DEF CallAcquire, Critical, TypeOK
  <2>4. calls' \in [Coros -> Nat] /\ todo' \in [Recoverers -> SUBSET Tasks]
    BY <1>a, <2>1 DEF CallAcquire, TypeOK
  <2>. QED
    BY <1>2, <1>a, <1>b, <2>1, <2>2, <2>3, <2>4
    DEF RecoverTask, CallAcquire, TypeOK, TableTypeOK, Places, InLock
<1>3. CASE RecoveryOver(r) \/ RecoveryRaises(r)
  <2>1. LockInv'
    BY <1>3, <1>a, KeepLock DEF RecoveryOver, RecoveryRaises, Critical, TypeOK
  <2>. QED
    BY <1>3, <1>a, <1>b, <2>1
    DEF RecoveryOver, RecoveryRaises, TypeOK, TableTypeOK, Places, Final
<1>. QED
  BY <1>1, <1>2, <1>3 DEF RecoveryStep

\* So does a crash: the locks of the process vanish with their coroutines.
LEMMA TypeLockCrash ==
    ASSUME TypeOK, LockInv, NEW p \in Procs, Crash(p)
    PROVE  TypeOK' /\ LockInv'
<1>1. TypeOK'
  BY SchedulerAssumption
  DEF TypeOK, TableTypeOK, Crash, DefaultRetries, Places, Final
<1>2. ASSUME NEW d \in Coros, pc'[d] \in Critical
      PROVE  Holds(d)'
  <2>1. pc'[d] = pc[d] /\ ProcOf[d] # p /\ Holds(d)
    BY <1>2 DEF TypeOK, Crash, Critical, Final, LockInv
  <2>2. Slot(d)' = Slot(d) /\ Slot(d) \in Locks /\ Slot(d)[1] = ProcOf[d]
    BY SlotType DEF Crash, Slot
  <2>. QED
    BY <2>1, <2>2 DEF Crash, Holds
<1>. QED
  BY <1>1, <1>2 DEF LockInv

\* The types and the lock discipline are inductive.
LEMMA TypeLockNext ==
    TypeOK /\ LockInv /\ [Next]_vars => TypeOK' /\ LockInv'
<1>. SUFFICES ASSUME TypeOK, LockInv, [Next]_vars
              PROVE  TypeOK' /\ LockInv'
  OBVIOUS
<1>1. CASE UNCHANGED vars
  BY <1>1 DEF vars, ctlVars, schedVars, TypeOK, TableTypeOK, LockInv, Holds, Slot
<1>2. CASE Terminating
  BY <1>1, <1>2 DEF Terminating
<1>3. ASSUME NEW c \in Coros, Step(c) \/ CallStep(c) \/ FaultStep(c)
      PROVE  TypeOK' /\ LockInv'
  BY <1>3, TypeLockController, TypeLockStorage, TypeLockTask, TypeLockRecovery
  DEF Step, CallStep, FaultStep
<1>4. ASSUME NEW p \in Procs, Crash(p)
      PROVE  TypeOK' /\ LockInv'
  BY <1>4, TypeLockCrash
<1>5. CASE Shutdown
  BY <1>5, SchedulerAssumption
  DEF Shutdown, ShutdownWorker, ctlVars, TypeOK, TableTypeOK, LockInv, Holds, Slot
<1>. QED
  BY <1>1, <1>2, <1>3, <1>4, <1>5 DEF Next

\* At first everything is well typed and no lock is held.
LEMMA TypeLockInit == Init => TypeOK /\ LockInv
BY TableAssumption, ControllerAssumption, SchedulerAssumption
DEF Init, CtlInit, TableInit, TypeOK, TableTypeOK, LockInv, Critical, Places,
    DefaultRetries, Locks

\* Every variable keeps its type.
THEOREM TypeCorrect == Spec => []TypeOK
<1>. QED
  BY TypeLockInit, TypeLockNext, PTL DEF Spec

-----------------------------------------------------------------------------
(* What a step does to the rows *)

\* A coroutine's turn is a turn in the controller or one of its own caller's.
LEMMA StepCases ==
    ASSUME NEW c \in Coros, Step(c) \/ CallStep(c) \/ FaultStep(c)
    PROVE  \/ ControllerStep(c) \/ StorageFails(c)
           \/ c \in Tasks /\ (TaskStep(c) \/ SubmitTask(c) \/ TaskFault(c))
           \/ c \in Recoverers /\ (RecoveryStep(c) \/ StartRecovery(c)
                                   \/ RecoveryLoadFails(c))
BY DEF Step, CallStep, FaultStep

\* The status column changes one row at a time, and becomes RUNNING only by
\* the hand of a coroutine that has been promised the slot.
LEMMA StatusEffect ==
    ASSUME TypeOK, [Next]_vars
    PROVE  \/ status' = status
           \/ \E t \in Tasks : InsertRow(t)
           \/ \E t \in Tasks, s \in TaskStatus \ {"running"} : UpdateTaskStatus(t, s)
           \/ \E c \in Coros : /\ pc[c] = "granting" /\ pc'[c] # "granting"
                               /\ UpdateTaskStatus(target[c], "running")
<1>. USE DEF TaskStatus, Goto
<1>1. CASE UNCHANGED vars \/ Terminating \/ Shutdown
  BY <1>1 DEF Terminating, Shutdown, ShutdownWorker, vars, ctlVars
<1>2. ASSUME NEW p \in Procs, Crash(p)
      PROVE  status' = status
  BY <1>2 DEF Crash
<1>3. ASSUME NEW c \in Coros, ControllerStep(c) \/ StorageFails(c)
      PROVE  \/ status' = status
             \/ \E s \in TaskStatus \ {"running"} : UpdateTaskStatus(target[c], s)
             \/ /\ pc[c] = "granting" /\ pc'[c] # "granting"
                /\ UpdateTaskStatus(target[c], "running")
  <2>1. CASE ControllerStep(c)
    BY <1>3, <2>1
    DEF ControllerStep, NoQueueRow, SlotFree, EnterWait, GrantSlot, WaitExpires,
        HandleTimeout, ScheduleRetry, RecordRetryAttempt, ReleaseSlot, TypeOK
  <2>2. CASE StorageFails(c)
    BY <1>3, <2>2
    DEF StorageFails, ReadFails, UpdateFails, UpdateTaskStatusRaises, TypeOK
  <2>. QED
    BY <1>3, <2>1, <2>2
<1>4. ASSUME NEW t \in Tasks, TaskStep(t) \/ SubmitTask(t) \/ TaskFault(t)
      PROVE  \/ status' = status
             \/ InsertRow(t)
             \/ UpdateTaskStatus(t, "pending")
  BY <1>4
  DEF TaskStep, TaskFault, SubmitTask, SubmitFails, AddJob, GetTaskWithRetry,
      GetTaskFails, NextAttempt, AttemptsOver, Return, GiveUp, GiveUpFails,
      UpdateTaskStatusRaises, RegisterWorkflow, RegisterRefused, TranslateFails,
      WorkerFails, StartWorkflow, StartFails, Leave
<1>5. ASSUME NEW r \in Recoverers,
             RecoveryStep(r) \/ StartRecovery(r) \/ RecoveryLoadFails(r)
      PROVE  status' = status
  BY <1>5
  DEF RecoveryStep, StartRecovery, RecoveryLoadFails, RecoverTask, RecoveryOver,
      RecoveryRaises
<1>. QED
  BY <1>1, <1>2, <1>3, <1>4, <1>5, SlotType, StepCases DEF Next

\* A coroutine is promised a slot by SlotFree alone, and keeps its target
\* until it has taken it.
LEMMA GrantingEffect ==
    ASSUME TypeOK, [Next]_vars
    PROVE  \/ \E c \in Coros : SlotFree(c)
           \/ \A d \in Coros : pc'[d] = "granting" =>
                                  pc[d] = "granting" /\ target'[d] = target[d]
<1>. DEFINE Kept == \A d \in Coros : pc'[d] = "granting" =>
                        pc[d] = "granting" /\ target'[d] = target[d]
<1>. USE DEF Goto, TypeOK
<1>1. CASE UNCHANGED vars \/ Terminating \/ Shutdown
  BY <1>1 DEF Terminating, Shutdown, ShutdownWorker, vars, ctlVars
<1>2. ASSUME NEW p \in Procs, Crash(p)
      PROVE  Kept
  BY <1>2 DEF Crash
<1>3. ASSUME NEW c \in Coros, ControllerStep(c) \/ StorageFails(c), ~SlotFree(c)
      PROVE  Kept
  BY <1>3
  DEF ControllerStep, NoQueueRow, EnterWait, GrantSlot, WaitExpires,
      HandleTimeout, ScheduleRetry, RecordRetryAttempt, ReleaseSlot, WakeNext, StorageFails
<1>4. ASSUME NEW t \in Tasks, TaskStep(t) \/ SubmitTask(t) \/ TaskFault(t)
      PROVE  Kept
  <2>1. t \in Coros
    BY DEF Coros
  <2>. QED
    BY <1>4, <2>1
    DEF TaskStep, TaskFault, SubmitTask, SubmitFails, AddJob, GetTaskWithRetry,
        GetTaskFails, NextAttempt, CallAcquire, AttemptsOver, Return, GiveUp,
        GiveUpFails, RegisterWorkflow, RegisterRefused, TranslateFails,
        WorkerFails, StartWorkflow, StartFails, Leave, CallRelease
<1>5. ASSUME NEW r \in Recoverers,
             RecoveryStep(r) \/ StartRecovery(r) \/ RecoveryLoadFails(r)
      PROVE  Kept
  <2>1. r \in Coros
    BY DEF Coros
  <2>. QED
    BY <1>5, <2>1
    DEF RecoveryStep, StartRecovery, RecoveryLoadFails, RecoverTask, CallAcquire,
        RecoveryOver, RecoveryRaises
<1>. QED
  BY <1>1, <1>2, <1>3, <1>4, <1>5, StepCases DEF Next

-----------------------------------------------------------------------------
(* The capacity *)

\* There are finitely many coroutines.
LEMMA CorosFinite == IsFiniteSet(Coros)
BY FS_Union, TableAssumption, ControllerAssumption DEF Coros

\* The counts are numbers.
LEMMA CountsType ==
    ASSUME NEW q \in Queues
    PROVE  /\ IsFiniteSet(Running(q)) /\ Cardinality(Running(q)) \in Nat
           /\ IsFiniteSet(Granting(q)) /\ Cardinality(Granting(q)) \in Nat
BY CorosFinite, TableAssumption, FS_Subset, FS_CardinalityType
DEF Running, Granting

\* Coroutines of distinct processes are no more than the processes.
LEMMA OnePerProcess ==
    ASSUME NEW G \in SUBSET Coros,
           \A c, d \in G : ProcOf[c] = ProcOf[d] => c = d
    PROVE  IsFiniteSet(G) /\ Cardinality(G) <= Cardinality(Procs)
<1>. DEFINE f == [c \in G |-> ProcOf[c]]
<1>1. f \in [G -> Procs]
  BY ControllerAssumption
<1>2. f \in Injection(G, Procs)
  BY <1>1, Fun_IsInj
<1>. QED
  BY <1>2, FS_Injection, ControllerAssumption

\* One lock per process and queue: the holders promised a slot of q are in
\* distinct processes.
LEMMA GrantersApart ==
    ASSUME LockInv, NEW q, NEW c \in Granting(q), NEW d \in Granting(q),
           ProcOf[c] = ProcOf[d]
    PROVE  c = d
<1>1. Holds(c) /\ Holds(d)
  BY DEF LockInv, Granting, Critical
<1>2. Slot(c) = Slot(d)
  BY DEF Granting, Slot, QueueName
<1>. QED
  BY <1>1, <1>2 DEF Holds

\* The capacity invariant is inductive, given the lock discipline.
LEMMA GrantNext ==
    ASSUME TypeOK, LockInv, GrantInv, [Next]_vars
    PROVE  GrantInv'
<1>. SUFFICES ASSUME NEW q \in Queues
              PROVE  Cardinality(Running(q)') + Cardinality(Granting(q)') <= SlotCap(q)
  BY DEF GrantInv, SlotCap
<1>. DEFINE R == Cardinality(Running(q))
            G == Cardinality(Granting(q))
<1>a. R \in Nat /\ G \in Nat /\ R + G <= SlotCap(q) /\ SlotCap(q) \in Int
  BY CountsType, TableAssumption, ControllerAssumption, FS_CardinalityType
  DEF GrantInv, SlotCap
<1>b. /\ IsFiniteSet(Running(q)') /\ Cardinality(Running(q)') \in Nat
      /\ IsFiniteSet(Granting(q)') /\ Cardinality(Granting(q)') \in Nat
  BY CorosFinite, TableAssumption, FS_Subset, FS_CardinalityType
  DEF Running, Granting
<1>1. ASSUME NEW c \in Coros, SlotFree(c)
      PROVE  Cardinality(Running(q)') + Cardinality(Granting(q)') <= SlotCap(q)
  <2>1. Running(q)' = Running(q)
    BY <1>1 DEF SlotFree, Running
  <2>2. CASE QueueName(c) # q
    <3>1. Granting(q)' = Granting(q)
      BY <1>1, <2>2 DEF SlotFree, Granting, QueueName, Goto, TypeOK
    <3>. QED
      BY <1>a, <2>1, <3>1
  <2>3. CASE QueueName(c) = q
    <3>1. q \in QueueRows /\ R < MaxConcurrent[q]
      BY <1>1, <2>3 DEF SlotFree, GetConcurrency
    <3>2. LockInv'
      BY TypeLockNext
    <3>3. \A d, e \in Granting(q)' : ProcOf[d] = ProcOf[e] => d = e
      BY <3>2 DEF LockInv, Granting, Critical, Holds, Slot, QueueName
    <3>4. Cardinality(Granting(q)') <= Cardinality(Procs)
      BY <3>3, OnePerProcess DEF Granting
    <3>5. MaxConcurrent[q] \in Nat /\ Cardinality(Procs) \in Nat
      BY <3>1, TableAssumption, ControllerAssumption, FS_CardinalityType
    <3>. QED
      BY <1>a, <1>b, <2>1, <3>1, <3>4, <3>5 DEF SlotCap
  <2>. QED
    BY <2>2, <2>3
<1>2. ASSUME \A d \in Coros : pc'[d] = "granting" =>
                                 pc[d] = "granting" /\ target'[d] = target[d]
      PROVE  Cardinality(Running(q)') + Cardinality(Granting(q)') <= SlotCap(q)
  <2>1. Granting(q)' \subseteq Granting(q)
    BY <1>2 DEF Granting, QueueName
  <2>2. Cardinality(Granting(q)') <= G
    BY <2>1, CountsType, FS_Subset
  <2>3. CASE Running(q)' \subseteq Running(q)
    <3>1. Cardinality(Running(q)') <= R
      BY <2>3, CountsType, FS_Subset
    <3>. QED
      BY <1>a, <1>b, <2>2, <3>1
  <2>4. ASSUME NEW c \in Coros, pc[c] = "granting", pc'[c] # "granting",
               UpdateTaskStatus(target[c], "running")
        PROVE  \/ Running(q)' \subseteq Running(q)
               \/ Cardinality(Running(q)') + Cardinality(Granting(q)') <= SlotCap(q)
    <3>1. CASE QueueName(c) # q
      BY <2>4, <3>1 DEF UpdateTaskStatus, Running, QueueName, TypeOK, TableTypeOK
    <3>2. CASE QueueName(c) = q
      <4>1. Running(q)' \subseteq Running(q) \cup {target[c]}
        BY <2>4, <3>2 DEF UpdateTaskStatus, Running, TypeOK, TableTypeOK
      <4>2. Cardinality(Running(q)') <= R + 1
        <5>1. /\ IsFiniteSet(Running(q) \cup {target[c]})
              /\ Cardinality(Running(q) \cup {target[c]}) <= R + 1
          <6>1. IsFiniteSet(Running(q))
            BY CountsType
          <6>2. /\ IsFiniteSet(Running(q) \cup {target[c]})
                /\ \/ Cardinality(Running(q) \cup {target[c]}) = R
                   \/ Cardinality(Running(q) \cup {target[c]}) = R + 1
            BY <6>1, FS_AddElement
          <6>. QED
            BY <1>a, <6>2
        <5>2. Cardinality(Running(q)') <= Cardinality(Running(q) \cup {target[c]})
          BY <4>1, <5>1, FS_Subset
        <5>. QED
          BY <1>a, <1>b, <5>1, <5>2, FS_CardinalityType
      <4>3. c \in Granting(q) /\ Granting(q)' \subseteq Granting(q) \ {c}
        BY <2>1, <2>4, <3>2 DEF Granting
      <4>4. Cardinality(Granting(q)') <= G - 1
        <5>1. /\ IsFiniteSet(Granting(q) \ {c})
              /\ Cardinality(Granting(q) \ {c}) = G - 1
          BY <1>a, <4>3, CountsType, FS_RemoveElement
        <5>2. Cardinality(Granting(q)') <= Cardinality(Granting(q) \ {c})
          BY <4>3, <5>1, FS_Subset
        <5>. QED
          BY <1>a, <1>b, <5>1, <5>2
      <4>. QED
        BY <1>a, <1>b, <4>2, <4>4
    <3>. QED
      BY <3>1, <3>2
  <2>5. CASE status' = status
    BY <2>3, <2>5 DEF Running
  <2>6. ASSUME NEW t \in Tasks, InsertRow(t)
        PROVE  Running(q)' \subseteq Running(q)
    BY <2>6 DEF InsertRow, Running, TypeOK, TableTypeOK
  <2>7. ASSUME NEW t \in Tasks, NEW s \in TaskStatus \ {"running"},
               UpdateTaskStatus(t, s)
        PROVE  Running(q)' \subseteq Running(q)
    BY <2>7 DEF UpdateTaskStatus, Running, TypeOK, TableTypeOK
  <2>. QED
    BY <2>3, <2>4, <2>5, <2>6, <2>7, StatusEffect
<1>. QED
  BY <1>1, <1>2, GrantingEffect

\* At first no slot is taken or promised.
LEMMA GrantInit == Init => GrantInv
<1>. SUFFICES ASSUME Init, NEW q \in Queues
              PROVE  Cardinality(Running(q)) + Cardinality(Granting(q)) <= SlotCap(q)
  BY DEF GrantInv
<1>1. Running(q) = {} /\ Granting(q) = {}
  BY DEF Init, CtlInit, TableInit, Running, Granting
<1>2. Cardinality(Procs) \in Nat \ {0}
  BY ControllerAssumption, FS_CardinalityType, FS_EmptySet
<1>3. SlotCap(q) \in Nat
  BY <1>2, TableAssumption DEF SlotCap
<1>. QED
  BY <1>1, <1>3, FS_EmptySet

\* The inductive invariant of the capacity.
LEMMA CapacityInvariant == Spec => [](TypeOK /\ LockInv /\ GrantInv)
<1>1. Init => TypeOK /\ LockInv /\ GrantInv
  BY TypeLockInit, GrantInit
<1>2. TypeOK /\ LockInv /\ GrantInv /\ [Next]_vars => (TypeOK /\ LockInv /\ GrantInv)'
  BY TypeLockNext, GrantNext
<1>. QED
  BY <1>1, <1>2, PTL DEF Spec

\* A queue never lends more slots than it is configured for, plus one for each
\* process beyond the first.
THEOREM OvercommitIsBounded == Spec => []OvercommitBounded
<1>1. TypeOK /\ LockInv /\ GrantInv => OvercommitBounded
  <2>. SUFFICES ASSUME GrantInv, NEW q \in Queues
                PROVE  GetConcurrency(q) <= SlotCap(q)
    BY DEF OvercommitBounded
  <2>1. SlotCap(q) \in Int
    BY TableAssumption, ControllerAssumption, FS_CardinalityType DEF SlotCap
  <2>. QED
    BY <2>1, CountsType DEF GrantInv, GetConcurrency
<1>. QED
  BY <1>1, CapacityInvariant, PTL

\* With one process the configured maximum is respected.
THEOREM OneProcessCap ==
    ASSUME Cardinality(Procs) = 1
    PROVE  Spec => []CapRespected
<1>1. OvercommitBounded => CapRespected
  <2>. SUFFICES ASSUME OvercommitBounded, NEW q \in QueueRows
                PROVE  GetConcurrency(q) <= MaxConcurrent[q]
    BY DEF CapRespected
  <2>1. q \in Queues /\ MaxConcurrent[q] \in Nat
    BY TableAssumption
  <2>. QED
    BY <2>1 DEF OvercommitBounded, SlotCap
<1>. QED
  BY <1>1, OvercommitIsBounded, PTL

-----------------------------------------------------------------------------
(* The refinement of SlotPool *)

\* Every step of the scheduler takes one slot the pool has left, frees one, or
\* leaves the pool alone.
THEOREM ImplementsSlotPool == Spec => PoolSpec
<1>. DEFINE held == GetByStatus({"running"})
            Cap  == [q \in Queues |-> SlotCap(q)]
<1>1. Init => Pool!Init
  BY DEF Init, CtlInit, TableInit, Pool!Init, GetByStatus
<1>2. TypeOK /\ LockInv /\ GrantInv /\ [Next]_vars => [Pool!Next]_held
  <2>. SUFFICES ASSUME TypeOK, LockInv, GrantInv, [Next]_vars
                PROVE  Pool!Next \/ held' = held
    OBVIOUS
  <2>1. CASE status' = status
    BY <2>1 DEF GetByStatus
  <2>2. ASSUME NEW t \in Tasks, InsertRow(t)
        PROVE  held' = held
    BY <2>2 DEF InsertRow, GetByStatus, TypeOK, TableTypeOK
  <2>3. ASSUME NEW t \in Tasks, NEW s \in TaskStatus \ {"running"},
               UpdateTaskStatus(t, s)
        PROVE  Pool!Next \/ held' = held
    <3>1. held' = held \ {t}
      BY <2>3 DEF UpdateTaskStatus, GetByStatus, TypeOK, TableTypeOK
    <3>. QED
      BY <3>1 DEF Pool!Next, Pool!Free
  <2>4. ASSUME NEW c \in Coros, pc[c] = "granting",
               UpdateTaskStatus(target[c], "running")
        PROVE  Pool!Next \/ held' = held
    <3>. DEFINE t == target[c]
                q == QueueOf[t]
    <3>1. t \in Tasks /\ q \in Queues
      BY SlotType DEF QueueName
    <3>2. held' = held \cup {t}
      BY <2>4, <3>1 DEF UpdateTaskStatus, GetByStatus, TypeOK, TableTypeOK
    <3>3. Pool!HeldOf(q) = Running(q)
      BY DEF Pool!HeldOf, GetByStatus, Running
    <3>4. Cardinality(Running(q)) < SlotCap(q)
      <4>1. c \in Granting(q)
        BY <2>4 DEF Granting, QueueName
      <4>2. Cardinality(Granting(q)) # 0
        BY <3>1, <4>1, CountsType, FS_EmptySet
      <4>3. SlotCap(q) \in Int
        BY TableAssumption, ControllerAssumption, FS_CardinalityType DEF SlotCap
      <4>. QED
        BY <3>1, <4>2, <4>3, CountsType DEF GrantInv
    <3>5. CASE t \in held
      BY <3>2, <3>5
    <3>6. CASE t \notin held
      <4>1. Pool!Take(t)
        <5>1. Cap[q] = SlotCap(q)
          BY <3>1
        <5>. QED
          BY <3>1, <3>2, <3>3, <3>4, <3>6, <5>1 DEF Pool!Take, Pool!Cardinality, Cardinality
      <4>. QED
        BY <3>1, <4>1 DEF Pool!Next
    <3>. QED
      BY <3>5, <3>6
  <2>. QED
    BY <2>1, <2>2, <2>3, <2>4, StatusEffect
<1>. QED
  BY <1>1, <1>2, CapacityInvariant, PTL DEF Spec, PoolSpec, Pool!Spec

-----------------------------------------------------------------------------
(* A wait is never ended by a release *)

\* The three ways a step can touch the events: no new entry and nobody enters
\* a wait or a call; a new call; a new wait.
LEMMA EventKept ==
    ASSUME TypeOK, EventInv, calls' = calls, target' = target,
           \A k \in Locks : pending'[k] \subseteq pending[k],
           \A c \in Coros : pc'[c] \in {"acquire", "waiting"} => pc'[c] = pc[c]
    PROVE  EventInv'
BY DEF EventInv, Slot

\* A call of acquire_slot gets an event of its own.
LEMMA EventCall ==
    ASSUME TypeOK, EventInv, NEW c \in Coros, NEW t \in Tasks, CallAcquire(c, t)
    PROVE  EventInv'
<1>. SUFFICES ASSUME NEW k \in Locks, NEW e \in pending[k], NEW d \in Coros,
                     e[2][1] = d
              PROVE  /\ e[2][2] <= calls'[d]
                     /\ e[2][2] = calls'[d] => pc'[d] # "acquire"
                     /\ e[2][2] = calls'[d] /\ pc'[d] = "waiting" => k = Slot(d)'
  BY DEF EventInv, CallAcquire
<1>1. /\ e[2][2] <= calls[d]
      /\ e[2][2] = calls[d] => pc[d] # "acquire"
      /\ e[2][2] = calls[d] /\ pc[d] = "waiting" => k = Slot(d)
  BY DEF EventInv
<1>2. e[2][2] \in Nat /\ calls[d] \in Nat
  BY DEF TypeOK
<1>3. CASE d = c
  <2>1. calls'[d] = calls[d] + 1
    BY <1>3 DEF CallAcquire, TypeOK
  <2>. QED
    BY <1>1, <1>2, <2>1
<1>4. CASE d # c
  BY <1>1, <1>4 DEF CallAcquire, Goto, Slot, TypeOK
<1>. QED
  BY <1>3, <1>4

\* A wait puts the call's event into its own queue's set.
LEMMA EventWait ==
    ASSUME TypeOK, EventInv, NEW c \in Coros, EnterWait(c)
    PROVE  EventInv'
<1>. SUFFICES ASSUME NEW k \in Locks, NEW e \in pending'[k], NEW d \in Coros,
                     e[2][1] = d
              PROVE  /\ e[2][2] <= calls[d]
                     /\ e[2][2] = calls[d] => pc'[d] # "acquire"
                     /\ e[2][2] = calls[d] /\ pc'[d] = "waiting" => k = Slot(d)
  BY DEF EventInv, EnterWait, Slot
<1>0. calls[c] \in Nat /\ pc[c] = "acquire" /\ pc' = [pc EXCEPT ![c] = "waiting"]
  BY DEF TypeOK, EnterWait, Goto
<1>1. CASE e \in pending[k]
  <2>1. /\ e[2][2] <= calls[d]
        /\ e[2][2] = calls[d] => pc[d] # "acquire"
        /\ e[2][2] = calls[d] /\ pc[d] = "waiting" => k = Slot(d)
    BY <1>1 DEF EventInv
  <2>. QED
    BY <1>0, <2>1 DEF TypeOK
<1>2. CASE e \notin pending[k]
  <2>1. k = Slot(c) /\ e = <<target[c], <<c, calls[c]>>>>
    BY <1>2 DEF EnterWait, Event, TypeOK
  <2>. QED
    BY <1>0, <2>1 DEF TypeOK
<1>. QED
  BY <1>1, <1>2

\* The event discipline is inductive.
LEMMA EventNext ==
    ASSUME TypeOK, EventInv, [Next]_vars
    PROVE  EventInv'
<1>. USE DEF Goto, schedVars
<1>1. CASE UNCHANGED vars \/ Terminating \/ Shutdown
  BY <1>1 DEF Terminating, Shutdown, ShutdownWorker, vars, ctlVars, EventInv, Slot
<1>2. ASSUME NEW p \in Procs, Crash(p)
      PROVE  EventInv'
  <2>1. \A k \in Locks : pending'[k] \subseteq pending[k]
    BY <1>2 DEF Crash, TypeOK
  <2>2. \A c \in Coros : pc'[c] \in {"acquire", "waiting"} => pc'[c] = pc[c]
    BY <1>2 DEF Crash
  <2>. QED
    BY <1>2, <2>1, <2>2, EventKept DEF Crash
<1>3. ASSUME NEW c \in Coros, ControllerStep(c) \/ StorageFails(c)
      PROVE  EventInv'
  <2>1. CASE EnterWait(c)
    BY <2>1, EventWait
  <2>2. CASE ReleaseSlot(c)
    <3>1. \A k \in Locks : pending'[k] \subseteq pending[k]
      BY <2>2 DEF ReleaseSlot, WakeNext, TypeOK
    <3>2. \A d \in Coros : pc'[d] \in {"acquire", "waiting"} => pc'[d] = pc[d]
      BY <2>2 DEF ReleaseSlot, WakeNext, TypeOK
    <3>. QED
      BY <2>2, <3>1, <3>2, EventKept DEF ReleaseSlot
  <2>3. CASE ~EnterWait(c) /\ ~ReleaseSlot(c)
    <3>1. calls' = calls /\ target' = target
      BY <1>3, <2>3
      DEF ControllerStep, NoQueueRow, SlotFree, GrantSlot, WaitExpires,
          HandleTimeout, ScheduleRetry, RecordRetryAttempt, StorageFails
    <3>2. \A k \in Locks : pending'[k] \subseteq pending[k]
      BY <1>3, <2>3
      DEF ControllerStep, NoQueueRow, SlotFree, GrantSlot, WaitExpires,
          HandleTimeout, ScheduleRetry, RecordRetryAttempt, StorageFails, TypeOK
    <3>3. \A d \in Coros : pc'[d] \in {"acquire", "waiting"} => pc'[d] = pc[d]
      BY <1>3, <2>3
      DEF ControllerStep, NoQueueRow, SlotFree, GrantSlot, WaitExpires,
          HandleTimeout, ScheduleRetry, RecordRetryAttempt, StorageFails, TypeOK
    <3>. QED
      BY <3>1, <3>2, <3>3, EventKept
  <2>. QED
    BY <2>1, <2>2, <2>3
<1>4. ASSUME NEW t \in Tasks, TaskStep(t) \/ SubmitTask(t) \/ TaskFault(t)
      PROVE  EventInv'
  <2>0. t \in Coros
    BY DEF Coros
  <2>1. CASE NextAttempt(t)
    BY <2>0, <2>1, EventCall DEF NextAttempt
  <2>2. CASE ~NextAttempt(t)
    <3>1. calls' = calls /\ target' = target /\ pending' = pending
      BY <1>4, <2>2
      DEF TaskStep, TaskFault, SubmitTask, SubmitFails, AddJob, GetTaskWithRetry,
          GetTaskFails, AttemptsOver, Return, GiveUp, GiveUpFails,
          RegisterWorkflow, RegisterRefused, TranslateFails, WorkerFails, StartWorkflow,
          StartFails, Leave, CallRelease
    <3>2. \A d \in Coros : pc'[d] \in {"acquire", "waiting"} => pc'[d] = pc[d]
      BY <1>4, <2>0, <2>2
      DEF TaskStep, TaskFault, SubmitTask, SubmitFails, AddJob, GetTaskWithRetry,
          GetTaskFails, AttemptsOver, Return, GiveUp, GiveUpFails,
          RegisterWorkflow, RegisterRefused, TranslateFails, WorkerFails, StartWorkflow,
          StartFails, Leave, CallRelease, TypeOK
    <3>. QED
      BY <3>1, <3>2, EventKept
  <2>. QED
    BY <2>1, <2>2
<1>5. ASSUME NEW r \in Recoverers,
             RecoveryStep(r) \/ StartRecovery(r) \/ RecoveryLoadFails(r)
      PROVE  EventInv'
  <2>0. r \in Coros
    BY DEF Coros
  <2>1. CASE RecoverTask(r)
    <3>1. PICK t \in todo[r] : CallAcquire(r, t)
      BY <2>1 DEF RecoverTask
    <3>. QED
      BY <2>0, <3>1, EventCall DEF TypeOK
  <2>2. CASE ~RecoverTask(r)
    <3>1. calls' = calls /\ target' = target /\ pending' = pending
      BY <1>5, <2>2
      DEF RecoveryStep, StartRecovery, RecoveryLoadFails, RecoveryOver, RecoveryRaises
    <3>2. \A d \in Coros : pc'[d] \in {"acquire", "waiting"} => pc'[d] = pc[d]
      BY <1>5, <2>0, <2>2
      DEF RecoveryStep, StartRecovery, RecoveryLoadFails, RecoveryOver,
          RecoveryRaises, TypeOK
    <3>. QED
      BY <3>1, <3>2, EventKept
  <2>. QED
    BY <2>1, <2>2
<1>. QED
  BY <1>1, <1>2, <1>3, <1>4, <1>5, StepCases DEF Next

\* At first there are no events.
LEMMA EventInit == Init => EventInv
BY DEF Init, CtlInit, EventInv

\* A coroutine leaves waiting by its own timeout or a crash: the only step of
\* another coroutine that could move it is a release, which would need the
\* lock the waiter holds and its event in that lock's pending set.
LEMMA WaitStep ==
    ASSUME TypeOK, LockInv, EventInv, [Next]_vars,
           NEW c \in Coros, pc[c] = "waiting"
    PROVE  pc'[c] \in {"waiting", "expired", "dead"}
<1>. USE DEF Goto
<1>1. CASE UNCHANGED vars \/ Terminating \/ Shutdown
  BY <1>1 DEF Terminating, Shutdown, ShutdownWorker, vars, ctlVars
<1>2. ASSUME NEW p \in Procs, Crash(p)
      PROVE  pc'[c] \in {"waiting", "dead"}
  BY <1>2 DEF Crash
<1>3. ASSUME NEW d \in Coros, ReleaseSlot(d)
      PROVE  pc'[c] = "waiting"
  <2>1. pc[d] = "release" /\ Holds(d) /\ d # c
    BY <1>3 DEF ReleaseSlot
  <2>2. Holds(c)
    BY DEF LockInv, Critical
  <2>3. Slot(c) # Slot(d)
    BY <2>1, <2>2 DEF Holds
  <2>4. \A e \in pending[Slot(d)] : Event(c) # e[2]
    BY <2>3, SlotType DEF EventInv, Event
  <2>. QED
    BY <1>3, <2>1, <2>4 DEF ReleaseSlot, WakeNext, TypeOK
<1>4. ASSUME NEW d \in Coros, ControllerStep(d) \/ StorageFails(d), ~ReleaseSlot(d)
      PROVE  pc'[c] \in {"waiting", "expired"}
  BY <1>4
  DEF ControllerStep, NoQueueRow, SlotFree, EnterWait, GrantSlot, WaitExpires,
      HandleTimeout, ScheduleRetry, RecordRetryAttempt,
      StorageFails, ReadFails, UpdateFails, TypeOK
<1>5. ASSUME NEW t \in Tasks, TaskStep(t) \/ SubmitTask(t) \/ TaskFault(t)
      PROVE  pc'[c] = "waiting"
  BY <1>5
  DEF TaskStep, TaskFault, SubmitTask, SubmitFails, AddJob, GetTaskWithRetry,
      GetTaskFails, NextAttempt, CallAcquire, AtLoopHead, AttemptsOver, Return,
      GiveUp, GiveUpFails, RegisterWorkflow, RegisterRefused, TranslateFails,
      WorkerFails, StartWorkflow, StartFails, Leave, CallRelease, TypeOK
<1>6. ASSUME NEW r \in Recoverers,
             RecoveryStep(r) \/ StartRecovery(r) \/ RecoveryLoadFails(r)
      PROVE  pc'[c] = "waiting"
  BY <1>6
  DEF RecoveryStep, StartRecovery, RecoveryLoadFails, RecoverTask, CallAcquire,
      AtRecoveryLoop, RecoveryOver, RecoveryRaises, TypeOK
<1>. QED
  BY <1>1, <1>2, <1>3, <1>4, <1>5, <1>6, StepCases DEF Next

\* No release ever wakes a waiting coroutine.
THEOREM NeverWoken == Spec => WaitOnlyExpires
<1>1. Init => TypeOK /\ LockInv /\ EventInv
  BY TypeLockInit, EventInit
<1>2. TypeOK /\ LockInv /\ EventInv /\ [Next]_vars => (TypeOK /\ LockInv /\ EventInv)'
  BY TypeLockNext, EventNext
<1>3. TypeOK /\ LockInv /\ EventInv /\ [Next]_vars
        => [\A c \in Coros : pc[c] = "waiting" =>
               pc'[c] \in {"waiting", "expired", "dead"}]_vars
  BY WaitStep
<1>. QED
  BY <1>1, <1>2, <1>3, PTL DEF Spec, WaitOnlyExpires

=============================================================================
