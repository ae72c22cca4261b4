-------------------------- MODULE Progress_proofs ---------------------------
(***************************************************************************)
(* Why no call of the scheduler hangs and none loops, for any number of     *)
(* tasks, queues, processes, recoveries, faults and crashes.                *)
(***************************************************************************)
EXTENDS DynamicScheduler_proofs

-----------------------------------------------------------------------------
(* The line before a lock *)

\* Who stands in a lock's line is at a place that needs that lock.
LineInv ==
    \A k \in Locks, d \in Coros : \A i \in 1 .. Len(lockQ[k]) :
        lockQ[k][i] = d => pc[d] \in InLock /\ Slot(d) = k

\* Nobody stands in a line twice.
OnceInv ==
    \A k \in Locks : \A i, j \in 1 .. Len(lockQ[k]) :
        lockQ[k][i] = lockQ[k][j] => i = j

\* Who needs a lock stands in its line.
StandInv ==
    \A c \in Coros : pc[c] \in InLock =>
        \E i \in 1 .. Len(lockQ[Slot(c)]) : lockQ[Slot(c)][i] = c

QueueInv == LineInv /\ OnceInv /\ StandInv

\* The row a coroutine will update is there: a task is inserted before it is
\* scheduled, and a recovery lists only rows it has read.
RowInv ==
    /\ \A c \in Coros : pc[c] \in InLock => status[target[c]] # "absent"
    /\ \A t \in Tasks : /\ target[t] = t
                        /\ pc[t] \notin {"idle"} \cup Final => status[t] # "absent"
    /\ \A r \in Recoverers : \A u \in todo[r] : status[u] # "absent"

\* Nobody reaches the acquire of a lock it already holds.
NoRetry == \A c \in Coros : pc[c] # "retry"

\* The ways a step can touch the lines: not at all, one coroutine joins, the
\* head of one leaves.
Stays ==
    /\ lockQ' = lockQ /\ target' = target
    /\ \A d \in Coros : pc'[d] \in InLock <=> pc[d] \in InLock

Joins(c, k) ==
    /\ lockQ' = [lockQ EXCEPT ![k] = Append(@, c)]
    /\ pc[c] \notin InLock /\ pc'[c] \in InLock /\ Slot(c)' = k
    /\ \A d \in Coros \ {c} : pc'[d] = pc[d] /\ target'[d] = target[d]

Leaves(c) ==
    /\ Holds(c) /\ Unlock(c) /\ target' = target
    /\ pc'[c] \notin InLock
    /\ \A d \in Coros \ {c} : pc'[d] \in InLock <=> pc[d] \in InLock

\* Nothing changes for the lines.
LEMMA QueueStays ==
    ASSUME TypeOK, QueueInv, Stays
    PROVE  QueueInv'
<1>1. \A d \in Coros : Slot(d)' = Slot(d)
  BY DEF Stays, Slot
<1>2. \A k \in Locks : \A i \in 1 .. Len(lockQ[k]) : lockQ[k][i] \in Coros
  BY DEF TypeOK
<1>3. LineInv'
  BY <1>1, <1>2 DEF QueueInv, LineInv, Stays
<1>4. OnceInv'
  BY DEF QueueInv, OnceInv, Stays
<1>5. StandInv'
  BY <1>1 DEF QueueInv, StandInv, Stays
<1>. QED
  BY <1>3, <1>4, <1>5 DEF QueueInv

\* A coroutine that was in no line joins one at its end.
LEMMA QueueJoin ==
    ASSUME TypeOK, QueueInv, NEW c \in Coros, NEW k \in Locks, Joins(c, k)
    PROVE  QueueInv'
<1>1. \A l \in Locks : lockQ[l] \in Seq(Coros)
  BY DEF TypeOK
<1>2. \A d \in Coros \ {c} : Slot(d)' = Slot(d) /\ Slot(d) \in Locks
  BY SlotType DEF Joins, Slot
<1>3. \A l \in Locks : \A i \in 1 .. Len(lockQ[l]) : lockQ[l][i] \in Coros \ {c}
  BY <1>1 DEF QueueInv, LineInv, Joins
<1>4. /\ Len(lockQ'[k]) = Len(lockQ[k]) + 1
      /\ lockQ'[k][Len(lockQ[k]) + 1] = c
      /\ \A i \in 1 .. Len(lockQ[k]) : lockQ'[k][i] = lockQ[k][i]
  BY <1>1 DEF Joins, TypeOK
<1>5. \A l \in Locks \ {k} : lockQ'[l] = lockQ[l]
  BY DEF Joins, TypeOK
<1>6. Len(lockQ[k]) \in Nat
  BY <1>1
<1>7. \A i \in 1 .. Len(lockQ'[k]) :
         i \in 1 .. Len(lockQ[k]) \/ i = Len(lockQ[k]) + 1
  BY <1>4, <1>6
<1>8. LineInv'
  <2>. SUFFICES ASSUME NEW l \in Locks, NEW d \in Coros,
                       NEW i \in 1 .. Len(lockQ'[l]), lockQ'[l][i] = d
                PROVE  pc'[d] \in InLock /\ Slot(d)' = l
    BY DEF LineInv
  <2>1. CASE l = k /\ i = Len(lockQ[k]) + 1
    BY <1>4, <2>1 DEF Joins
  <2>2. CASE i \in 1 .. Len(lockQ[l]) /\ lockQ'[l][i] = lockQ[l][i]
    <3>1. d \in Coros \ {c} /\ pc[d] \in InLock /\ Slot(d) = l
      BY <1>3, <2>2 DEF QueueInv, LineInv
    <3>. QED
      BY <1>2, <3>1 DEF Joins
  <2>. QED
    BY <1>4, <1>5, <1>7, <2>1, <2>2
<1>9. OnceInv'
  BY <1>3, <1>4, <1>5, <1>6, <1>7 DEF QueueInv, OnceInv
<1>10. StandInv'
  <2>. SUFFICES ASSUME NEW d \in Coros, pc'[d] \in InLock
                PROVE  \E i \in 1 .. Len(lockQ'[Slot(d)']) : lockQ'[Slot(d)'][i] = d
    BY DEF StandInv
  <2>1. CASE d = c
    <3>1. Slot(d)' = k
      BY <2>1 DEF Joins
    <3>2. Len(lockQ[k]) + 1 \in 1 .. Len(lockQ'[k])
      BY <1>4, <1>6
    <3>. QED
      BY <1>4, <2>1, <3>1, <3>2
  <2>2. CASE d # c
    <3>1. pc[d] \in InLock /\ Slot(d)' = Slot(d) /\ Slot(d) \in Locks
      BY <1>2, <2>2 DEF Joins
    <3>2. PICK i \in 1 .. Len(lockQ[Slot(d)]) : lockQ[Slot(d)][i] = d
      BY <3>1 DEF QueueInv, StandInv
    <3>3. i \in 1 .. Len(lockQ'[Slot(d)]) /\ lockQ'[Slot(d)][i] = d
      BY <1>4, <1>5, <1>6, <3>1, <3>2
    <3>. QED
      BY <3>1, <3>3
  <2>. QED
    BY <2>1, <2>2
<1>. QED
  BY <1>8, <1>9, <1>10 DEF QueueInv

\* The head of a line leaves it, and the next becomes the head.
LEMMA QueueLeave ==
    ASSUME TypeOK, QueueInv, NEW c \in Coros, Leaves(c)
    PROVE  QueueInv'
<1>. DEFINE k == Slot(c)
<1>0. k \in Locks
  BY SlotType
<1>1. lockQ[k] \in Seq(Coros) /\ lockQ[k] # <<>> /\ lockQ[k][1] = c
  BY <1>0 DEF TypeOK, Leaves, Holds
<1>2. \A d \in Coros : Slot(d)' = Slot(d) /\ Slot(d) \in Locks
  BY SlotType DEF Leaves, Slot
<1>3. lockQ'[k] = Tail(lockQ[k]) /\ \A l \in Locks \ {k} : lockQ'[l] = lockQ[l]
  BY <1>0 DEF Leaves, Unlock, TypeOK
<1>4. /\ Len(lockQ[k]) \in Nat \ {0}
      /\ Len(lockQ'[k]) = Len(lockQ[k]) - 1
      /\ \A i \in 1 .. Len(lockQ[k]) - 1 : lockQ'[k][i] = lockQ[k][i + 1]
  BY <1>1, <1>3
<1>5. \A l \in Locks : \A i \in 1 .. Len(lockQ'[l]) :
         \E j \in 1 .. Len(lockQ[l]) : /\ lockQ'[l][i] = lockQ[l][j]
                                       /\ l = k => j = i + 1
                                       /\ l # k => j = i
  <2>. SUFFICES ASSUME NEW l \in Locks, NEW i \in 1 .. Len(lockQ'[l])
                PROVE  \E j \in 1 .. Len(lockQ[l]) : /\ lockQ'[l][i] = lockQ[l][j]
                                                     /\ l = k => j = i + 1
                                                     /\ l # k => j = i
    OBVIOUS
  <2>1. CASE l = k
    <3>1. i + 1 \in 1 .. Len(lockQ[l]) /\ lockQ'[l][i] = lockQ[l][i + 1]
      BY <1>4, <2>1
    <3>. QED
      BY <2>1, <3>1
  <2>2. CASE l # k
    BY <1>3, <2>2
  <2>. QED
    BY <2>1, <2>2
<1>6. \A l \in Locks : \A j \in 1 .. Len(lockQ[l]) :
         lockQ[l][j] \in Coros /\ (lockQ[l][j] = c => l = k /\ j = 1)
  <2>. SUFFICES ASSUME NEW l \in Locks, NEW j \in 1 .. Len(lockQ[l])
                PROVE  lockQ[l][j] \in Coros /\ (lockQ[l][j] = c => l = k /\ j = 1)
    OBVIOUS
  <2>1. lockQ[l][j] \in Coros
    BY DEF TypeOK
  <2>2. lockQ[l][j] = c => l = k
    BY DEF QueueInv, LineInv
  <2>3. 1 \in 1 .. Len(lockQ[k])
    BY <1>4
  <2>4. lockQ[l][j] = c => j = 1
    BY <1>0, <1>1, <2>2, <2>3 DEF QueueInv, OnceInv
  <2>. QED
    BY <2>1, <2>2, <2>4
<1>7. LineInv'
  <2>. SUFFICES ASSUME NEW l \in Locks, NEW d \in Coros,
                       NEW i \in 1 .. Len(lockQ'[l]), lockQ'[l][i] = d
                PROVE  pc'[d] \in InLock /\ Slot(d)' = l
    BY DEF LineInv
  <2>1. PICK j \in 1 .. Len(lockQ[l]) : /\ lockQ'[l][i] = lockQ[l][j]
                                        /\ l = k => j = i + 1
                                        /\ l # k => j = i
    BY <1>5
  <2>2. i \in Int /\ i >= 1
    OBVIOUS
  <2>3. d # c
    BY <1>6, <2>1, <2>2
  <2>4. pc[d] \in InLock /\ Slot(d) = l
    BY <2>1 DEF QueueInv, LineInv
  <2>. QED
    BY <1>2, <2>3, <2>4 DEF Leaves
<1>8. OnceInv'
  <2>. SUFFICES ASSUME NEW l \in Locks, NEW i \in 1 .. Len(lockQ'[l]),
                       NEW h \in 1 .. Len(lockQ'[l]), lockQ'[l][i] = lockQ'[l][h]
                PROVE  i = h
    BY DEF OnceInv
  <2>1. PICK j \in 1 .. Len(lockQ[l]) : /\ lockQ'[l][i] = lockQ[l][j]
                                        /\ l = k => j = i + 1
                                        /\ l # k => j = i
    BY <1>5
  <2>2. PICK g \in 1 .. Len(lockQ[l]) : /\ lockQ'[l][h] = lockQ[l][g]
                                        /\ l = k => g = h + 1
                                        /\ l # k => g = h
    BY <1>5
  <2>3. j = g
    BY <2>1, <2>2 DEF QueueInv, OnceInv
  <2>4. i \in Int /\ h \in Int
    OBVIOUS
  <2>. QED
    BY <2>1, <2>2, <2>3, <2>4
<1>9. StandInv'
  <2>. SUFFICES ASSUME NEW d \in Coros, pc'[d] \in InLock
                PROVE  \E i \in 1 .. Len(lockQ'[Slot(d)]) : lockQ'[Slot(d)][i] = d
    BY <1>2 DEF StandInv
  <2>1. d # c /\ pc[d] \in InLock /\ Slot(d) \in Locks
    BY <1>2 DEF Leaves
  <2>2. PICK j \in 1 .. Len(lockQ[Slot(d)]) : lockQ[Slot(d)][j] = d
    BY <2>1 DEF QueueInv, StandInv
  <2>3. CASE Slot(d) # k
    BY <1>3, <2>1, <2>2, <2>3
  <2>4. CASE Slot(d) = k
    <3>1. j # 1
      BY <1>1, <2>1, <2>2, <2>4
    <3>2. j - 1 \in 1 .. Len(lockQ'[k]) /\ lockQ'[k][j - 1] = lockQ[k][j]
      BY <1>4, <2>2, <2>4, <3>1
    <3>. QED
      BY <2>2, <2>4, <3>2
  <2>. QED
    BY <2>3, <2>4
<1>. QED
  BY <1>7, <1>8, <1>9 DEF QueueInv

\* A crash empties the lines of its process and sends away all who stood there.
LEMMA QueueCrash ==
    ASSUME TypeOK, QueueInv, NEW p \in Procs, Crash(p)
    PROVE  QueueInv'
<1>1. \A k \in Locks : lockQ'[k] = IF k[1] = p THEN <<>> ELSE lockQ[k]
  BY DEF Crash
<1>2. \A d \in Coros : /\ Slot(d)' = Slot(d) /\ Slot(d) \in Locks
                       /\ Slot(d)[1] = ProcOf[d]
  BY SlotType DEF Crash, Slot
<1>3. \A d \in Coros : pc'[d] \in InLock <=> pc[d] \in InLock /\ ProcOf[d] # p
  BY DEF Crash, InLock, Final, TypeOK
<1>4. \A k \in Locks : \A i \in 1 .. Len(lockQ[k]) : lockQ[k][i] \in Coros
  BY DEF TypeOK
<1>5. \A k \in Locks : \A i \in 1 .. Len(lockQ'[k]) :
         k[1] # p /\ lockQ'[k] = lockQ[k] /\ i \in 1 .. Len(lockQ[k])
  BY <1>1
<1>6. LineInv'
  BY <1>2, <1>3, <1>5 DEF QueueInv, LineInv
<1>7. OnceInv'
  BY <1>5 DEF QueueInv, OnceInv
<1>8. StandInv'
  BY <1>1, <1>2, <1>3 DEF QueueInv, StandInv
<1>. QED
  BY <1>6, <1>7, <1>8 DEF QueueInv

-----------------------------------------------------------------------------
(* What a step does to the lines *)

\* A coroutine in the controller keeps its place in the line or, as the head
\* of it, leaves.
LEMMA LineController ==
    ASSUME TypeOK, LockInv, NEW c \in Coros, ControllerStep(c) \/ StorageFails(c)
    PROVE  Stays \/ Leaves(c)
<1>. USE DEF Goto, InLock, TypeOK
<1>1. CASE SlotFree(c) \/ EnterWait(c) \/ WaitExpires(c) \/ HandleTimeout(c)
  BY <1>1 DEF SlotFree, EnterWait, WaitExpires, HandleTimeout, Stays
<1>2. CASE NoQueueRow(c)
  BY <1>2 DEF NoQueueRow, Leaves
<1>3. CASE GrantSlot(c) \/ ScheduleRetry(c)
  <2>1. Holds(c)
    BY <1>3 DEF GrantSlot, ScheduleRetry, RecordRetryAttempt, LockInv, Critical
  <2>. QED
    BY <1>3, <2>1 DEF GrantSlot, ScheduleRetry, RecordRetryAttempt, Leaves
<1>4. CASE ReleaseSlot(c)
  <2>1. pc'[c] = "freed" /\ \A d \in Coros \ {c} : pc'[d] \in InLock <=> pc[d] \in InLock
    BY <1>4 DEF ReleaseSlot, WakeNext
  <2>. QED
    BY <1>4, <2>1 DEF ReleaseSlot, Leaves
<1>5. CASE StorageFails(c)
  <2>1. Holds(c)
    BY <1>5 DEF StorageFails, ReadFails, UpdateFails, LockInv, Critical
  <2>. QED
    BY <1>5, <2>1 DEF StorageFails, Leaves
<1>. QED
  BY <1>1, <1>2, <1>3, <1>4, <1>5 DEF ControllerStep

\* A task outside the controller enters it by a call, behind everybody else,
\* and its row is there when it does.
LEMMA LineTask ==
    ASSUME TypeOK, RowInv, NEW t \in Tasks,
           TaskStep(t) \/ SubmitTask(t) \/ TaskFault(t)
    PROVE  \/ Stays
           \/ \E k \in Locks : Joins(t, k)
<1>. USE DEF Goto, InLock, TypeOK
<1>a. t \in Coros /\ ProcOf[t] \in Procs /\ QueueOf[t] \in Queues /\ target[t] = t
  BY TableAssumption, ControllerAssumption DEF Coros, RowInv
<1>b. <<ProcOf[t], QueueOf[t]>> \in Locks
  BY <1>a DEF Locks
<1>1. CASE NextAttempt(t)
  BY <1>1, <1>a, <1>b
  DEF NextAttempt, CallAcquire, AtLoopHead, Joins, Slot
<1>2. ASSUME NEW ok \in BOOLEAN, Leave(t, ok), pc[t] \notin InLock
      PROVE  \E k \in Locks : Joins(t, k)
  BY <1>2, <1>a, <1>b DEF Leave, CallRelease, Joins, Slot
<1>3. CASE \/ TranslateFails(t) \/ RegisterRefused(t) \/ WorkerFails(t)
           \/ StartWorkflow(t) \/ StartFails(t)
  BY <1>2, <1>3
  DEF TranslateFails, RegisterRefused, WorkerFails, StartWorkflow, StartFails
<1>4. CASE \/ SubmitTask(t) \/ SubmitFails(t) \/ AddJob(t) \/ GetTaskWithRetry(t)
           \/ GetTaskFails(t) \/ AttemptsOver(t) \/ Return(t) \/ GiveUp(t)
           \/ GiveUpFails(t) \/ RegisterWorkflow(t)
  BY <1>4, <1>a
  DEF SubmitTask, SubmitFails, AddJob, GetTaskWithRetry, GetTaskFails,
      AttemptsOver, AtLoopHead, Return, GiveUp, GiveUpFails, RegisterWorkflow, Stays
<1>. QED
  BY <1>1, <1>3, <1>4 DEF TaskStep, TaskFault

\* So does a recovery.
LEMMA LineRecovery ==
    ASSUME TypeOK, NEW r \in Recoverers,
           RecoveryStep(r) \/ StartRecovery(r) \/ RecoveryLoadFails(r)
    PROVE  \/ Stays
           \/ \E k \in Locks : Joins(r, k)
<1>. USE DEF Goto, InLock, TypeOK
<1>a. r \in Coros /\ ProcOf[r] \in Procs
  BY ControllerAssumption DEF Coros
<1>1. CASE RecoverTask(r)
  <2>1. PICK t \in todo[r] : CallAcquire(r, t)
    BY <1>1 DEF RecoverTask
  <2>2. t \in Tasks /\ <<ProcOf[r], QueueOf[t]>> \in Locks
    BY <1>a, TableAssumption DEF Locks
  <2>. QED
    BY <1>1, <1>a, <2>1, <2>2
    DEF RecoverTask, AtRecoveryLoop, CallAcquire, Joins, Slot
<1>2. CASE ~RecoverTask(r)
  BY <1>2, <1>a
  DEF RecoveryStep, StartRecovery, RecoveryLoadFails, RecoveryOver,
      RecoveryRaises, AtRecoveryLoop, Stays
<1>. QED
  BY <1>1, <1>2

\* The lines before the locks are inductive.
LEMMA QueueNext ==
    ASSUME TypeOK, LockInv, QueueInv, RowInv, [Next]_vars
    PROVE  QueueInv'
<1>1. CASE UNCHANGED vars \/ Terminating \/ Shutdown
  BY <1>1, QueueStays DEF Terminating, Shutdown, ShutdownWorker, vars, ctlVars, Stays
<1>2. ASSUME NEW p \in Procs, Crash(p)
      PROVE  QueueInv'
  BY <1>2, QueueCrash
<1>3. ASSUME NEW c \in Coros, Step(c) \/ CallStep(c) \/ FaultStep(c)
      PROVE  QueueInv'
  BY <1>3, StepCases, LineController, LineTask, LineRecovery, QueueStays,
     QueueJoin, QueueLeave
<1>. QED
  BY <1>1, <1>2, <1>3 DEF Next

-----------------------------------------------------------------------------
(* The rows are there *)

\* A row that was inserted stays.
LEMMA RowsStay ==
    ASSUME TypeOK, [Next]_vars, NEW t \in Tasks, status[t] # "absent"
    PROVE  status'[t] # "absent"
BY StatusEffect, SlotType
DEF InsertRow, UpdateTaskStatus, TaskStatus, TypeOK, TableTypeOK

\* A task leaves idle by inserting its row, or ends; only its own calls change
\* what it passes to the controller, and they pass the task itself.
LEMMA TaskRow ==
    ASSUME TypeOK, RowInv, NEW t \in Tasks,
           TaskStep(t) \/ SubmitTask(t) \/ TaskFault(t)
    PROVE  /\ target' = target
           /\ \A d \in Coros \ {t} : pc'[d] = pc[d]
           /\ pc[t] \notin Final
           /\ pc[t] = "idle" => pc'[t] \in Final \/ status'[t] = "pending"
<1>. USE DEF Goto, TypeOK
<1>a. t \in Coros /\ target[t] = t
  BY DEF Coros, RowInv
<1>1. CASE NextAttempt(t)
  BY <1>1, <1>a DEF NextAttempt, CallAcquire, AtLoopHead, Final
<1>2. CASE ~NextAttempt(t)
  BY <1>2, <1>a
  DEF TaskStep, TaskFault, SubmitTask, SubmitFails, AddJob, GetTaskWithRetry,
      GetTaskFails, AttemptsOver, AtLoopHead, Return, GiveUp, GiveUpFails,
      RegisterWorkflow, RegisterRefused, TranslateFails, WorkerFails, StartWorkflow,
      StartFails, Leave, CallRelease, InsertRow, TableTypeOK, Final
<1>. QED
  BY <1>1, <1>2

\* A recovery lists inserted rows, and asks only for slots of those it lists.
LEMMA RecoveryRow ==
    ASSUME TypeOK, RowInv, NEW r \in Recoverers,
           RecoveryStep(r) \/ StartRecovery(r) \/ RecoveryLoadFails(r)
    PROVE  /\ \A d \in Coros \ {r} : pc'[d] = pc[d] /\ target'[d] = target[d]
           /\ pc'[r] \in InLock => target'[r] \in todo[r]
           /\ \A u \in Recoverers : u # r => todo'[u] = todo[u]
           /\ \A u \in todo'[r] : status[u] # "absent"
<1>. USE DEF Goto, TypeOK
<1>a. r \in Coros
  BY DEF Coros
<1>1. CASE RecoverTask(r)
  <2>1. PICK t \in todo[r] : /\ todo' = [todo EXCEPT ![r] = @ \ {t}]
                             /\ CallAcquire(r, t)
    BY <1>1 DEF RecoverTask
  <2>. QED
    BY <1>a, <2>1 DEF CallAcquire, RowInv
<1>2. CASE StartRecovery(r)
  BY <1>2, <1>a DEF StartRecovery, GetByStatus, InLock
<1>3. CASE RecoveryLoadFails(r) \/ RecoveryOver(r) \/ RecoveryRaises(r)
  BY <1>3, <1>a
  DEF RecoveryLoadFails, RecoveryOver, RecoveryRaises, schedVars, InLock, RowInv
<1>. QED
  BY <1>1, <1>2, <1>3 DEF RecoveryStep

\* A coroutine in the controller touches no other's target and no list.
LEMMA ControllerRow ==
    ASSUME TypeOK, NEW c \in Coros, ControllerStep(c) \/ StorageFails(c)
    PROVE  /\ target' = target
           /\ \A d \in Coros : pc'[d] \in InLock => pc[d] \in InLock
           /\ \A d \in Coros : pc[d] \in {"idle"} \cup Final => pc'[d] = pc[d]
BY DEF ControllerStep, NoQueueRow, SlotFree, EnterWait, GrantSlot, WaitExpires,
       HandleTimeout, ScheduleRetry, RecordRetryAttempt, ReleaseSlot, WakeNext, StorageFails,
       ReadFails, UpdateFails, InLock, Final, Goto, TypeOK

\* The rows the coroutines need are inductive.
LEMMA RowNext ==
    ASSUME TypeOK, RowInv, [Next]_vars
    PROVE  RowInv'
<1>0. \A t \in Tasks : status[t] # "absent" => status'[t] # "absent"
  BY RowsStay
<1>b. /\ target \in [Coros -> Tasks]
      /\ \A r \in Recoverers : todo[r] \subseteq Tasks
      /\ \A t \in Tasks : t \in Coros
      /\ \A r \in Recoverers : r \in Coros \ Tasks
  BY ControllerAssumption DEF TypeOK, Coros
<1>1. CASE UNCHANGED vars \/ Terminating \/ Shutdown
  BY <1>1 DEF Terminating, Shutdown, ShutdownWorker, vars, ctlVars, schedVars, RowInv
<1>2. ASSUME NEW p \in Procs, Crash(p)
      PROVE  RowInv'
  <2>1. \A d \in Coros : pc'[d] = pc[d] \/ pc'[d] = "dead"
    BY <1>2 DEF Crash
  <2>2. status' = status /\ target' = target /\ todo' = todo
    BY <1>2 DEF Crash
  <2>3. "dead" \in Final /\ "dead" \notin InLock
    BY DEF InLock, Final
  <2>. QED
    BY <1>b, <2>1, <2>2, <2>3 DEF RowInv
<1>3. ASSUME NEW c \in Coros, ControllerStep(c) \/ StorageFails(c), UNCHANGED schedVars
      PROVE  RowInv'
  BY <1>0, <1>b, <1>3, ControllerRow DEF RowInv, schedVars
<1>4. ASSUME NEW t \in Tasks, TaskStep(t) \/ SubmitTask(t) \/ TaskFault(t)
      PROVE  RowInv'
  <2>1. /\ target' = target
        /\ \A d \in Coros \ {t} : pc'[d] = pc[d]
        /\ pc[t] \notin Final
        /\ pc[t] = "idle" => pc'[t] \in Final \/ status'[t] = "pending"
    BY <1>4, TaskRow
  <2>2. todo' = todo
    BY <1>4
    DEF TaskStep, TaskFault, SubmitTask, SubmitFails, AddJob, GetTaskWithRetry,
        GetTaskFails, NextAttempt, AttemptsOver, Return, GiveUp, GiveUpFails,
        RegisterWorkflow, RegisterRefused, TranslateFails, WorkerFails,
        StartWorkflow, StartFails, Leave, schedVars
  <2>3. pc'[t] \notin {"idle"} \cup Final => status'[t] # "absent"
    BY <1>0, <2>1 DEF RowInv
  <2>4. pc'[t] \in InLock => pc'[t] \notin {"idle"} \cup Final
    BY DEF InLock, Final
  <2>. QED
    BY <1>0, <1>b, <2>1, <2>2, <2>3, <2>4 DEF RowInv
<1>5. ASSUME NEW r \in Recoverers,
             RecoveryStep(r) \/ StartRecovery(r) \/ RecoveryLoadFails(r)
      PROVE  RowInv'
  <2>1. /\ \A d \in Coros \ {r} : pc'[d] = pc[d] /\ target'[d] = target[d]
        /\ pc'[r] \in InLock => target'[r] \in todo[r]
        /\ \A u \in Recoverers : u # r => todo'[u] = todo[u]
        /\ \A u \in todo'[r] : status[u] # "absent"
    BY <1>5, RecoveryRow
  <2>2. todo'[r] \subseteq Tasks
    BY <1>5, TypeLockRecovery, <1>b
    DEF RecoveryStep, StartRecovery, RecoveryLoadFails, RecoverTask, RecoveryOver,
        RecoveryRaises, schedVars, GetByStatus, TypeOK
  <2>. QED
    BY <1>0, <1>b, <2>1, <2>2 DEF RowInv
<1>. QED
  BY <1>1, <1>2, <1>3, <1>4, <1>5 DEF Next, Step, CallStep, FaultStep

-----------------------------------------------------------------------------
(* No lock is lost *)

\* Only a coroutine that waits can be woken into the retry, and none is.
LEMMA RetryNext ==
    ASSUME TypeOK, LockInv, EventInv, NoRetry, [Next]_vars
    PROVE  NoRetry'
<1>. SUFFICES ASSUME NEW c \in Coros, pc'[c] = "retry"
              PROVE  FALSE
  BY DEF NoRetry
<1>. USE DEF Goto, TypeOK, NoRetry
<1>0. pc[c] # "waiting"
  BY WaitStep
<1>1. CASE UNCHANGED vars \/ Terminating \/ Shutdown
  BY <1>1 DEF Terminating, Shutdown, ShutdownWorker, vars, ctlVars
<1>2. ASSUME NEW p \in Procs, Crash(p)
      PROVE  FALSE
  BY <1>2 DEF Crash
<1>3. ASSUME NEW d \in Coros, ControllerStep(d) \/ StorageFails(d)
      PROVE  FALSE
  BY <1>0, <1>3
  DEF ControllerStep, NoQueueRow, SlotFree, EnterWait, GrantSlot, WaitExpires,
      HandleTimeout, ScheduleRetry, RecordRetryAttempt, ReleaseSlot, WakeNext, StorageFails
<1>4. ASSUME NEW t \in Tasks, TaskStep(t) \/ SubmitTask(t) \/ TaskFault(t)
      PROVE  FALSE
  BY <1>4
  DEF TaskStep, TaskFault, SubmitTask, SubmitFails, AddJob, GetTaskWithRetry,
      GetTaskFails, NextAttempt, CallAcquire, AttemptsOver, Return, GiveUp,
      GiveUpFails, RegisterWorkflow, RegisterRefused, TranslateFails, WorkerFails,
      StartWorkflow, StartFails, Leave, CallRelease
<1>5. ASSUME NEW r \in Recoverers,
             RecoveryStep(r) \/ StartRecovery(r) \/ RecoveryLoadFails(r)
      PROVE  FALSE
  BY <1>5
  DEF RecoveryStep, StartRecovery, RecoveryLoadFails, RecoverTask, CallAcquire,
      RecoveryOver, RecoveryRaises
<1>. QED
  BY <1>1, <1>2, <1>3, <1>4, <1>5, StepCases DEF Next

ProgressInv == TypeOK /\ LockInv /\ EventInv /\ NoRetry /\ RowInv /\ QueueInv

\* At first every line is empty.
LEMMA ProgressInit == Init => ProgressInv
<1>. SUFFICES ASSUME Init
              PROVE  ProgressInv
  OBVIOUS
<1>1. TypeOK /\ LockInv /\ EventInv
  BY TypeLockInit, EventInit
<1>2. NoRetry
  BY DEF Init, CtlInit, NoRetry
<1>3. RowInv
  BY DEF Init, CtlInit, RowInv, InLock, Coros
<1>4. QueueInv
  BY DEF Init, CtlInit, QueueInv, LineInv, OnceInv, StandInv, InLock
<1>. QED
  BY <1>1, <1>2, <1>3, <1>4 DEF ProgressInv

\* The inductive invariant of the locks.
LEMMA ProgressNext == ProgressInv /\ [Next]_vars => ProgressInv'
BY TypeLockNext, EventNext, RetryNext, RowNext, QueueNext DEF ProgressInv

\* The head of every line can go on without anybody's help: a coroutine that
\* died or left took its place in the line with it, and nobody is ever sent
\* back to acquire the lock it holds.
THEOREM LocksAreNeverLost == Spec => []LocksMoveOn
<1>1. ProgressInv => LocksMoveOn
  <2>. SUFFICES ASSUME ProgressInv, NEW k \in Locks, lockQ[k] # <<>>
                PROVE  Slot(Head(lockQ[k])) = k /\ CanGoOn(Head(lockQ[k]))
    BY DEF LocksMoveOn, ProgressInv, QueueInv, StandInv
  <2>. DEFINE head == Head(lockQ[k])
  <2>1. lockQ[k] \in Seq(Coros)
    BY DEF ProgressInv, TypeOK
  <2>2. 1 \in 1 .. Len(lockQ[k]) /\ lockQ[k][1] = head /\ head \in Coros
    BY <2>1
  <2>3. pc[head] \in InLock /\ Slot(head) = k
    BY <2>2 DEF ProgressInv, QueueInv, LineInv
  <2>. QED
    BY <2>2, <2>3 DEF CanGoOn, ProgressInv, NoRetry, RowInv
<1>. QED
  BY <1>1, ProgressInit, ProgressNext, PTL DEF Spec

\* _retry_acquire, which would wait for the lock its caller holds, is never
\* entered: nobody wakes a coroutine that waits with that lock.
THEOREM RetryIsDead == Spec => []NoRetry
<1>1. ProgressInv => NoRetry
  BY DEF ProgressInv
<1>. QED
  BY <1>1, ProgressInit, ProgressNext, PTL DEF Spec

-----------------------------------------------------------------------------
(* No call loops *)

\* What is left of a turn, place by place.
LEMMA TurnSteps ==
    /\ StepsOfTurn("next") = 2 /\ StepsOfTurn("pick") = 2
    /\ StepsOfTurn("refused") = 2 /\ StepsOfTurn("raised") = 2
    /\ StepsOfTurn("freed") = 2 /\ StepsOfTurn("giveup") = 1
    /\ StepsOfTurn("release") = 3 /\ StepsOfTurn("start") = 4
    /\ StepsOfTurn("record") = 4 /\ StepsOfTurn("granted") = 5
    /\ StepsOfTurn("expired") = 5 /\ StepsOfTurn("retry") = 5
    /\ StepsOfTurn("granting") = 6 /\ StepsOfTurn("waiting") = 6
    /\ StepsOfTurn("acquire") = 7
    /\ \A place \in Final : StepsOfTurn(place) = 0
BY DEF StepsOfTurn, Final

\* At every place a call can be at once its budget is fixed.
Begun == Places \ {"idle", "saved", "load"}

LEMMA TurnStepsType ==
    /\ \A place \in Begun : StepsOfTurn(place) \in Nat
    /\ \A place \in Begun \ Final : StepsOfTurn(place) > 0
BY TurnSteps DEF Begun, Places, InLock, Final

\* The turns left are a number, and a step that leaves the counters of a call
\* alone leaves it its turns.
LEMMA TurnsType ==
    ASSUME TypeOK, NEW c \in Coros
    PROVE  Turns(c) \in Nat
<1>1. CASE c \in Recoverers
  <2>1. IsFiniteSet(todo[c])
    BY <1>1, TableAssumption, FS_Subset DEF TypeOK
  <2>. QED
    BY <1>1, <2>1, FS_CardinalityType DEF Turns
<1>2. CASE c \notin Recoverers
  <2>1. calls[c] \in Nat /\ limit[c] \in Nat
    BY <1>2 DEF TypeOK, Coros
  <2>. QED
    BY <1>2, <2>1 DEF Turns
<1>. QED
  BY <1>1, <1>2

LEMMA TurnsKept ==
    ASSUME NEW c \in Coros, calls'[c] = calls[c],
           c \in Tasks => limit'[c] = limit[c],
           c \in Recoverers => todo'[c] = todo[c]
    PROVE  Turns(c)' = Turns(c)
BY DEF Turns, Coros

\* A call goes on within its turn when its place comes closer to the end.
LEMMA Within ==
    ASSUME TypeOK, NEW c \in Coros, pc[c] \in Begun, pc'[c] \in Begun,
           Turns(c)' = Turns(c), StepsOfTurn(pc'[c]) < StepsOfTurn(pc[c])
    PROVE  StepsLeft(c)' < StepsLeft(c)
BY TurnsType, TurnStepsType DEF StepsLeft

\* A new attempt uses up a turn of the task's loop.
LEMMA AttemptUses ==
    ASSUME TypeOK, NEW t \in Tasks, NextAttempt(t)
    PROVE  StepsLeft(t)' < StepsLeft(t)
<1>1. t \in Coros /\ t \notin Recoverers
  BY ControllerAssumption DEF Coros
<1>2. calls[t] \in Nat /\ limit[t] \in Nat /\ calls[t] < limit[t]
  BY <1>1 DEF TypeOK, NextAttempt
<1>3. calls'[t] = calls[t] + 1 /\ limit' = limit /\ pc'[t] = "acquire"
  BY <1>1 DEF NextAttempt, CallAcquire, Goto, schedVars, TypeOK
<1>4. Turns(t) = limit[t] - calls[t]
  BY <1>1, <1>2 DEF Turns
<1>5. Turns(t)' = limit[t] - calls[t] - 1
  BY <1>1, <1>2, <1>3 DEF Turns
<1>6. StepsOfTurn(pc[t]) = 2 /\ StepsOfTurn(pc'[t]) = 7
  BY <1>3, TurnSteps DEF NextAttempt, AtLoopHead
<1>. QED
  BY <1>2, <1>4, <1>5, <1>6 DEF StepsLeft

\* A recovery's next acquire uses up an entry of its list.
LEMMA RecoverUses ==
    ASSUME TypeOK, NEW r \in Recoverers, RecoverTask(r)
    PROVE  StepsLeft(r)' < StepsLeft(r)
<1>1. r \in Coros
  BY DEF Coros
<1>2. PICK t \in todo[r] : todo' = [todo EXCEPT ![r] = @ \ {t}] /\ CallAcquire(r, t)
  BY DEF RecoverTask
<1>3. todo'[r] = todo[r] \ {t} /\ pc'[r] = "acquire"
  BY <1>1, <1>2 DEF CallAcquire, Goto, TypeOK
<1>4. IsFiniteSet(todo[r])
  BY TableAssumption, FS_Subset DEF TypeOK
<1>5. /\ Cardinality(todo[r] \ {t}) = Cardinality(todo[r]) - 1
      /\ Cardinality(todo[r]) \in Nat
  BY <1>4, FS_RemoveElement, FS_CardinalityType
<1>6. /\ StepsOfTurn(pc[r]) \in {2, 5}
      /\ StepsOfTurn(pc'[r]) = 7
  BY <1>3, TurnSteps DEF RecoverTask, AtRecoveryLoop
<1>7. Turns(r) = Cardinality(todo[r]) /\ Turns(r)' = Cardinality(todo[r]) - 1
  BY <1>3, <1>5 DEF Turns
<1>. QED
  BY <1>5, <1>6, <1>7 DEF StepsLeft

\* What a coroutine in the controller does to its own budget and to others'.
LEMMA ControllerUses ==
    ASSUME TypeOK, NEW d \in Coros, ControllerStep(d) \/ StorageFails(d),
           UNCHANGED schedVars, NEW c \in Coros, pc[c] \in Begun
    PROVE  \/ StepsLeft(c)' < StepsLeft(c)
           \/ StepsLeft(c)' = StepsLeft(c) /\ pc'[c] = pc[c]
<1>. USE DEF Goto
<1>1. Turns(c)' = Turns(c)
  <2>1. calls' = calls
    BY DEF ControllerStep, NoQueueRow, SlotFree, EnterWait, GrantSlot, WaitExpires,
           HandleTimeout, ScheduleRetry, RecordRetryAttempt, ReleaseSlot, StorageFails
  <2>. QED
    BY <2>1, TurnsKept DEF schedVars
<1>2. CASE pc'[c] = pc[c]
  BY <1>1, <1>2 DEF StepsLeft
<1>3. CASE pc'[c] # pc[c]
  <2>1. \/ pc[c] = "acquire" /\ pc'[c] \in {"raised", "granting", "waiting"}
        \/ pc[c] = "granting" /\ pc'[c] \in {"granted", "raised"}
        \/ pc[c] = "waiting" /\ pc'[c] \in {"expired", "retry"}
        \/ pc[c] = "expired" /\ pc'[c] \in {"record", "raised"}
        \/ pc[c] = "record" /\ pc'[c] \in {"refused", "raised"}
        \/ pc[c] = "release" /\ pc'[c] \in {"freed", "raised"}
    <3>1. CASE StorageFails(d)
      BY <1>3, <3>1 DEF StorageFails, ReadFails, UpdateFails, TypeOK
    <3>2. CASE ReleaseSlot(d)
      BY <1>3, <3>2 DEF ReleaseSlot, WakeNext, TypeOK
    <3>3. CASE ControllerStep(d) /\ ~ReleaseSlot(d)
      BY <1>3, <3>3
      DEF ControllerStep, NoQueueRow, SlotFree, EnterWait, GrantSlot, WaitExpires,
          HandleTimeout, ScheduleRetry, RecordRetryAttempt, TypeOK
    <3>. QED
      BY <3>1, <3>2, <3>3
  <2>2. pc'[c] \in Begun /\ StepsOfTurn(pc'[c]) < StepsOfTurn(pc[c])
    BY <2>1, TurnSteps DEF Begun, Places, InLock, Final
  <2>. QED
    BY <1>1, <2>2, Within
<1>. QED
  BY <1>2, <1>3

\* What a task outside the controller does to its own budget.
LEMMA TaskUses ==
    ASSUME TypeOK, NEW t \in Tasks, pc[t] \in Begun,
           TaskStep(t) \/ SubmitTask(t) \/ TaskFault(t)
    PROVE  StepsLeft(t)' < StepsLeft(t)
<1>. USE DEF Goto
<1>0. t \in Coros /\ t \notin Recoverers /\ pc[t] \notin {"idle", "saved", "load"}
  BY ControllerAssumption DEF Coros, Begun
<1>1. CASE NextAttempt(t)
  BY <1>1, AttemptUses
<1>2. CASE ~NextAttempt(t)
  <2>1. Turns(t)' = Turns(t)
    <3>1. calls' = calls /\ limit' = limit
      BY <1>0, <1>2
      DEF TaskStep, TaskFault, SubmitTask, SubmitFails, AddJob, GetTaskWithRetry,
          GetTaskFails, AttemptsOver, Return, GiveUp, GiveUpFails, RegisterWorkflow,
          RegisterRefused, TranslateFails, WorkerFails, StartWorkflow, StartFails,
          Leave, CallRelease, schedVars
    <3>. QED
      BY <1>0, <3>1, TurnsKept
  <2>2. \/ pc[t] \in {"next", "refused", "raised", "freed"} /\ pc'[t] \in {"giveup", "done"}
        \/ pc[t] = "giveup" /\ pc'[t] \in {"done", "failed"}
        \/ pc[t] = "granted" /\ pc'[t] \in {"start", "release"}
        \/ pc[t] = "start" /\ pc'[t] = "release"
    BY <1>0, <1>2
    DEF TaskStep, TaskFault, SubmitTask, SubmitFails, AddJob, GetTaskWithRetry,
        GetTaskFails, AttemptsOver, AtLoopHead, Return, GiveUp, GiveUpFails,
        RegisterWorkflow, RegisterRefused, TranslateFails, WorkerFails, StartWorkflow,
        StartFails, Leave, CallRelease, TypeOK
  <2>3. pc'[t] \in Begun /\ StepsOfTurn(pc'[t]) < StepsOfTurn(pc[t])
    BY <2>2, TurnSteps DEF Begun, Places, InLock, Final
  <2>. QED
    BY <1>0, <2>1, <2>3, Within
<1>. QED
  BY <1>1, <1>2

\* What a recovery does to its own.
LEMMA RecoveryUses ==
    ASSUME TypeOK, NEW r \in Recoverers, pc[r] \in Begun,
           RecoveryStep(r) \/ StartRecovery(r) \/ RecoveryLoadFails(r)
    PROVE  StepsLeft(r)' < StepsLeft(r)
<1>0. r \in Coros /\ r \notin Tasks /\ pc[r] # "idle"
  BY ControllerAssumption DEF Coros, Begun
<1>1. CASE RecoverTask(r)
  BY <1>1, RecoverUses
<1>2. CASE ~RecoverTask(r)
  <2>1. Turns(r)' = Turns(r)
    BY <1>0, <1>2, TurnsKept
    DEF RecoveryStep, StartRecovery, RecoveryLoadFails, RecoveryOver,
        RecoveryRaises, schedVars
  <2>2. /\ pc[r] \in {"pick", "granted", "refused", "raised"}
        /\ pc'[r] \in {"done", "failed"}
    BY <1>0, <1>2
    DEF RecoveryStep, StartRecovery, RecoveryLoadFails, RecoveryOver,
        RecoveryRaises, AtRecoveryLoop, Goto, TypeOK
  <2>3. pc'[r] \in Begun /\ StepsOfTurn(pc'[r]) < StepsOfTurn(pc[r])
    BY <2>2, TurnSteps DEF Begun, Places, InLock, Final
  <2>. QED
    BY <1>0, <2>1, <2>3, Within
<1>. QED
  BY <1>1, <1>2

\* Outside the controller a coroutine touches nobody else's budget.
LEMMA OthersKeep ==
    ASSUME TypeOK, NEW d \in Coros, NEW c \in Coros, c # d,
           \/ d \in Tasks /\ (TaskStep(d) \/ SubmitTask(d) \/ TaskFault(d))
           \/ d \in Recoverers /\ (RecoveryStep(d) \/ StartRecovery(d)
                                   \/ RecoveryLoadFails(d))
    PROVE  StepsLeft(c)' = StepsLeft(c) /\ pc'[c] = pc[c]
<1>. USE DEF Goto, TypeOK
<1>1. pc'[c] = pc[c] /\ calls'[c] = calls[c]
  BY DEF TaskStep, TaskFault, SubmitTask, SubmitFails, AddJob, GetTaskWithRetry,
         GetTaskFails, NextAttempt, CallAcquire, AttemptsOver, Return, GiveUp,
         GiveUpFails, RegisterWorkflow, RegisterRefused, TranslateFails, WorkerFails,
         StartWorkflow, StartFails, Leave, CallRelease, RecoveryStep, StartRecovery,
         RecoveryLoadFails, RecoverTask, RecoveryOver, RecoveryRaises
<1>2. /\ c \in Tasks => limit'[c] = limit[c]
      /\ c \in Recoverers => todo'[c] = todo[c]
  BY DEF TaskStep, TaskFault, SubmitTask, SubmitFails, AddJob, GetTaskWithRetry,
         GetTaskFails, NextAttempt, AttemptsOver, Return, GiveUp, GiveUpFails,
         RegisterWorkflow, RegisterRefused, TranslateFails, WorkerFails,
         StartWorkflow, StartFails, Leave, RecoveryStep, StartRecovery,
         RecoveryLoadFails, RecoverTask, RecoveryOver, RecoveryRaises, schedVars
<1>. QED
  BY <1>1, <1>2, TurnsKept DEF StepsLeft

\* Each step of a call brings it closer to its end, and no step of another
\* call, no exception and no crash sends it back: with the theorem above, and
\* the timers that end the waits, no call goes on for ever.
THEOREM CallsEndInFinitelyManySteps == Spec => CallsRunOut
<1>1. TypeOK /\ [Next]_vars
        => [\A c \in Coros : pc[c] \notin {"idle", "saved", "load"} =>
              \/ StepsLeft(c)' < StepsLeft(c)
              \/ StepsLeft(c)' = StepsLeft(c) /\ pc'[c] = pc[c]]_vars
  <2>. SUFFICES ASSUME TypeOK, Next, NEW c \in Coros,
                       pc[c] \notin {"idle", "saved", "load"}
                PROVE  \/ StepsLeft(c)' < StepsLeft(c)
                       \/ StepsLeft(c)' = StepsLeft(c) /\ pc'[c] = pc[c]
    OBVIOUS
  <2>0. pc[c] \in Begun
    BY DEF TypeOK, Begun
  <2>1. CASE Terminating \/ Shutdown
    BY <2>1, TurnsKept DEF Terminating, Shutdown, ShutdownWorker, vars, ctlVars, schedVars,
                           StepsLeft
  <2>2. ASSUME NEW p \in Procs, Crash(p)
        PROVE  \/ StepsLeft(c)' < StepsLeft(c)
               \/ StepsLeft(c)' = StepsLeft(c) /\ pc'[c] = pc[c]
    <3>1. Turns(c)' = Turns(c)
      BY <2>2, TurnsKept DEF Crash
    <3>2. CASE pc'[c] = pc[c]
      BY <3>1, <3>2 DEF StepsLeft
    <3>3. CASE pc'[c] # pc[c]
      <4>1. pc'[c] = "dead" /\ pc[c] \in Begun \ Final
        BY <2>0, <2>2, <3>3 DEF Crash
      <4>2. "dead" \in Final /\ "dead" \in Begun
        BY DEF Begun, Places, Final
      <4>3. StepsOfTurn(pc'[c]) < StepsOfTurn(pc[c])
        BY <4>1, <4>2, TurnSteps, TurnStepsType
      <4>. QED
        BY <2>0, <3>1, <4>1, <4>2, <4>3, Within
    <3>. QED
      BY <3>2, <3>3
  <2>3. ASSUME NEW d \in Coros, ControllerStep(d) \/ StorageFails(d), UNCHANGED schedVars
        PROVE  \/ StepsLeft(c)' < StepsLeft(c)
               \/ StepsLeft(c)' = StepsLeft(c) /\ pc'[c] = pc[c]
    BY <2>0, <2>3, ControllerUses
  <2>4. ASSUME NEW t \in Tasks, TaskStep(t) \/ SubmitTask(t) \/ TaskFault(t)
        PROVE  \/ StepsLeft(c)' < StepsLeft(c)
               \/ StepsLeft(c)' = StepsLeft(c) /\ pc'[c] = pc[c]
    BY <2>0, <2>4, TaskUses, OthersKeep DEF Coros
  <2>5. ASSUME NEW r \in Recoverers,
               RecoveryStep(r) \/ StartRecovery(r) \/ RecoveryLoadFails(r)
        PROVE  \/ StepsLeft(c)' < StepsLeft(c)
               \/ StepsLeft(c)' = StepsLeft(c) /\ pc'[c] = pc[c]
    BY <2>0, <2>5, RecoveryUses, OthersKeep DEF Coros
  <2>. QED
    BY <2>1, <2>2, <2>3, <2>4, <2>5 DEF Next, Step, CallStep, FaultStep
<1>. QED
  BY <1>1, TypeLockInit, TypeLockNext, PTL DEF Spec, CallsRunOut

=============================================================================
