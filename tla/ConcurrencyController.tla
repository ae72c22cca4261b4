----------------------- MODULE ConcurrencyController ------------------------
(***************************************************************************)
(* scheduling/concurrency.py: the per-process controller that lends the     *)
(* slots of a queue.  Each process of Procs has one controller (a           *)
(* container singleton) with one asyncio.Lock and one pending set per       *)
(* queue; what the processes share is the task table.  A coroutine of       *)
(* Coros is a call chain that ends in acquire_slot or release_slot; its pc  *)
(* is the await it is suspended at:                                         *)
(*                                                                          *)
(*   acquire   async with self.locks[queue] of acquire_slot, or its count   *)
(*   granting  slot found free, status update under way (lock held)         *)
(*   waiting   wait_event.wait() (lock held)                                *)
(*   expired   asyncio.TimeoutError caught, status update (lock held)       *)
(*   record    _schedule_retry (lock held)                                  *)
(*   retry     _retry_acquire: waits for the lock it already holds          *)
(*   release   async with self.locks[queue] of release_slot, or its update  *)
(*                                                                          *)
(* and, back in the caller, granted (True), refused (False), raised (an     *)
(* exception) and freed (release_slot returned).                            *)
(***************************************************************************)
EXTENDS TaskTable, Sequences

CONSTANTS Procs,       \* the application processes
          Recoverers,  \* coroutines that run recover_cluster_state
          ProcOf       \* the process each coroutine runs in

Coros == Tasks \cup Recoverers

Locks == Procs \X Queues

ASSUME ControllerAssumption ==
    /\ Tasks \cap Recoverers = {}
    /\ IsFiniteSet(Recoverers)
    /\ IsFiniteSet(Procs)
    /\ Procs # {}
    /\ ProcOf \in [Coros -> Procs]

VARIABLES pc,          \* where each coroutine is suspended
          target,      \* the task_id it passes to acquire_slot and release_slot
          calls,       \* how many times it has called acquire_slot
          lockQ,       \* self.locks: the holder, then its waiters in order
          pending      \* self.pending_tasks: the set of (task_id, wait_event)

ctlVars == <<status, pc, target, calls, lockQ, pending>>

Slot(c) == <<ProcOf[c], QueueOf[target[c]]>>

QueueName(c) == QueueOf[target[c]]

\* The event object of the acquire_slot call c is in.
Event(c) == <<c, calls[c]>>

Holds(c) == lockQ[Slot(c)] # <<>> /\ Head(lockQ[Slot(c)]) = c

\* The places where a coroutine is somewhere in the lock's queue.
InLock == {"acquire", "granting", "waiting", "expired", "record", "retry",
           "release"}

\* The places only the lock's holder can be at.
Critical == {"granting", "waiting", "expired", "record", "retry"}

Goto(c, to) == pc' = [pc EXCEPT ![c] = to]

\* __aexit__ of the lock: the first waiter becomes the holder.
Unlock(c) == lockQ' = [lockQ EXCEPT ![Slot(c)] = Tail(@)]

CtlInit ==
    /\ TableInit
    /\ pc = [c \in Coros |-> "idle"]
    /\ \E t \in Tasks : target = [c \in Coros |-> IF c \in Tasks THEN c ELSE t]
    /\ calls = [c \in Coros |-> 0]
    /\ lockQ = [k \in Locks |-> <<>>]
    /\ pending = [k \in Locks |-> {}]

-----------------------------------------------------------------------------
(* acquire_slot *)

CallAcquire(c, t) ==
    /\ target' = [target EXCEPT ![c] = t]
    /\ calls' = [calls EXCEPT ![c] = @ + 1]
    /\ LET k == <<ProcOf[c], QueueOf[t]>>
       IN  lockQ' = [lockQ EXCEPT ![k] = Append(@, c)]
    /\ Goto(c, "acquire")
    /\ UNCHANGED pending

\* self.queue.load returned None: config.max_concurrent raises.
NoQueueRow(c) ==
    /\ pc[c] = "acquire" /\ Holds(c)
    /\ QueueName(c) \notin QueueRows
    /\ Unlock(c)
    /\ Goto(c, "raised")
    /\ UNCHANGED <<status, target, calls, pending>>

\* Faulty variants of the next action: one slot too many; the count taken
\* outside async with.
SlotFreeOffByOne(c) ==
    /\ pc[c] = "acquire" /\ Holds(c)
    /\ QueueName(c) \in QueueRows
    /\ GetConcurrency(QueueName(c)) <= MaxConcurrent[QueueName(c)]
    /\ Goto(c, "granting")
    /\ UNCHANGED <<status, target, calls, lockQ, pending>>

SlotFreeUnlocked(c) ==
    /\ pc[c] = "acquire"
    /\ QueueName(c) \in QueueRows
    /\ GetConcurrency(QueueName(c)) < MaxConcurrent[QueueName(c)]
    /\ Goto(c, "granting")
    /\ UNCHANGED <<status, target, calls, lockQ, pending>>

\* The decision depends on the count alone (the queue row never changes), so
\* it is taken when the count is read; the grant is a later step.
SlotFree(c) ==
    /\ pc[c] = "acquire" /\ Holds(c)
    /\ QueueName(c) \in QueueRows
    /\ GetConcurrency(QueueName(c)) < MaxConcurrent[QueueName(c)]
    /\ Goto(c, "granting")
    /\ UNCHANGED <<status, target, calls, lockQ, pending>>

\* A faulty variant: the task id goes in without its event.
EnterWaitBareId(c) ==
    /\ pc[c] = "acquire" /\ Holds(c)
    /\ QueueName(c) \in QueueRows
    /\ GetConcurrency(QueueName(c)) >= MaxConcurrent[QueueName(c)]
    /\ pending' = [pending EXCEPT ![Slot(c)] = @ \cup {target[c]}]
    /\ Goto(c, "waiting")
    /\ UNCHANGED <<status, target, calls, lockQ>>

\* The wait starts, and the lock is kept.
EnterWait(c) ==
    /\ pc[c] = "acquire" /\ Holds(c)
    /\ QueueName(c) \in QueueRows
    /\ GetConcurrency(QueueName(c)) >= MaxConcurrent[QueueName(c)]
    /\ pending' = [pending EXCEPT ![Slot(c)] = @ \cup {<<target[c], Event(c)>>}]
    /\ Goto(c, "waiting")
    /\ UNCHANGED <<status, target, calls, lockQ>>

\* _acquire_immediate, then return True.
GrantSlot(c) ==
    /\ pc[c] = "granting"
    /\ UpdateTaskStatus(target[c], "running")
    /\ Unlock(c)
    /\ Goto(c, "granted")
    /\ UNCHANGED <<target, calls, pending>>

\* wait_for gives up.
WaitExpires(c) ==
    /\ pc[c] = "waiting"
    /\ Goto(c, "expired")
    /\ UNCHANGED <<status, target, calls, lockQ, pending>>

\* _handle_timeout: the discard names the task id, the entries are pairs.
HandleTimeout(c) ==
    /\ pc[c] = "expired"
    /\ UpdateTaskStatus(target[c], "timeout")
    /\ pending' = [pending EXCEPT ![Slot(c)] = @ \ {target[c]}]
    /\ Goto(c, "record")
    /\ UNCHANGED <<target, calls, lockQ>>

\* It writes two columns the table above leaves out and acquire_slot returns
\* False, or it raises, as it does on a database without jsonb_set.
RecordRetryAttempt(c) ==
    /\ \E to \in {"refused", "raised"} : Goto(c, to)
    /\ UNCHANGED status

\* A faulty variant: the lock is not given back on the way out.
ScheduleRetryKeepsLock(c) ==
    /\ pc[c] = "record"
    /\ RecordRetryAttempt(c)
    /\ UNCHANGED <<target, calls, lockQ, pending>>

\* The count of retries is read, for a date that nothing uses, and written.
ScheduleRetry(c) ==
    /\ pc[c] = "record"
    /\ RecordRetryAttempt(c)
    /\ Unlock(c)
    /\ UNCHANGED <<target, calls, pending>>

-----------------------------------------------------------------------------
(* release_slot *)

CallRelease(c) ==
    /\ lockQ' = [lockQ EXCEPT ![Slot(c)] = Append(@, c)]
    /\ Goto(c, "release")
    /\ UNCHANGED <<target, calls, pending>>

\* "Wake the next waiting task": set.pop() returns an arbitrary entry; its
\* event is heard only by the call that created it, which goes on to
\* _retry_acquire.
WakeNext(c) ==
    \/ /\ pending[Slot(c)] = {}
       /\ Goto(c, "freed")
       /\ UNCHANGED pending
    \/ \E e \in pending[Slot(c)] :
          /\ pending' = [pending EXCEPT ![Slot(c)] = @ \ {e}]
          /\ pc' = [d \in Coros |->
                       IF d = c THEN "freed"
                       ELSE IF pc[d] = "waiting" /\ Event(d) = e[2]
                            THEN "retry" ELSE pc[d]]

\* A faulty variant: the body runs without waiting for the lock.
ReleaseSlotUnlocked(c) ==
    /\ pc[c] = "release"
    /\ UpdateTaskStatus(target[c], "released")
    /\ Unlock(c)
    /\ WakeNext(c)
    /\ UNCHANGED <<target, calls>>

ReleaseSlot(c) ==
    /\ pc[c] = "release" /\ Holds(c)
    /\ UpdateTaskStatus(target[c], "released")
    /\ Unlock(c)
    /\ WakeNext(c)
    /\ UNCHANGED <<target, calls>>

-----------------------------------------------------------------------------
(* A database call inside either method raises; async with gives the lock    *)
(* back and the exception goes to the caller.                                *)

ReadFails(c) ==
    /\ pc[c] = "acquire" /\ Holds(c)
    /\ UNCHANGED status

UpdateFails(c) ==
    \/ pc[c] = "granting" /\ UpdateTaskStatusRaises(target[c], "running")
    \/ pc[c] = "expired" /\ UpdateTaskStatusRaises(target[c], "timeout")
    \/ pc[c] = "release" /\ Holds(c) /\ UpdateTaskStatusRaises(target[c], "released")

StorageFails(c) ==
    /\ ReadFails(c) \/ UpdateFails(c)
    /\ Unlock(c)
    /\ Goto(c, "raised")
    /\ UNCHANGED <<target, calls, pending>>

-----------------------------------------------------------------------------
(* One turn of a coroutine inside the controller *)
ControllerStep(c) ==
    \/ NoQueueRow(c)
    \/ SlotFree(c)
    \/ EnterWait(c)
    \/ GrantSlot(c)
    \/ WaitExpires(c)
    \/ HandleTimeout(c)
    \/ ScheduleRetry(c)
    \/ ReleaseSlot(c)
=============================================================================
