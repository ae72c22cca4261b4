--------------------------- MODULE WorkerRegistry ---------------------------
(***************************************************************************)
(* scheduling/adapters/temporal/workflow_registrar.py in one process, for   *)
(* one task queue (queues do not meet): several registrars, each with what  *)
(* is registered on the queue and at most one worker it knows of.  A step   *)
(* is what a coroutine does between two awaits.  A call is:                 *)
(*                                                                          *)
(*   idle       not made yet                                                *)
(*   start      a _restart_worker created by create_task, not yet run       *)
(*   closing    a _shutdown_worker of shutdown's gather, not yet run        *)
(*   stopping   waiting for the old worker's shutdown                       *)
(*   ended      returned or raised                                          *)
(***************************************************************************)
EXTENDS Naturals, FiniteSets

CONSTANTS Assets,         \* workflow classes and activities
          MaxRegistrars,  \* bound: WorkflowRegistrar objects
          MaxCalls,       \* bound: calls of all registrars
          MaxFaults       \* bound: workers that die, constructors that raise

ASSUME RegistrarAssumption ==
    /\ MaxRegistrars \in Nat
    /\ MaxCalls \in Nat
    /\ MaxFaults \in Nat

\* Coroutines in the order they begin; a worker is named by the one that
\* launched it.
Calls == 1 .. MaxCalls
NoWorker == 0

\* Registrars in the order they are constructed.
Registrars == 1 .. MaxRegistrars
None == 0

VARIABLES created,      \* the registrars that exist
          handler,      \* the registrar that receives SIGINT and SIGTERM
          registry,     \* workflow_registry and activity_registry
          tracked,      \* workers[task_queue]: the worker it knows of
          served,       \* what each worker was constructed with
          running,      \* the workers whose run() has not ended
          pc,           \* where each call is
          owner,        \* its registrar
          restarts,     \* whether it launches a worker when it has stopped one
          old,          \* the worker it stops
          overlapped,   \* history: the registrars with two calls at once
          closed,       \* history: the registrars told to close a worker
          faults        \* how often a worker died or a constructor raised

registrarVars == <<created, handler, registry, closed>>
vars == <<registrarVars, tracked, served, running, pc, owner, restarts, old,
          overlapped, faults>>

Init ==
    /\ created = {} /\ handler = None
    /\ registry = [r \in Registrars |-> {}]
    /\ tracked = [r \in Registrars |-> NoWorker]
    /\ served = [c \in Calls |-> {}]
    /\ running = {}
    /\ pc = [c \in Calls |-> "idle"]
    /\ owner = [c \in Calls |-> None]
    /\ restarts = [c \in Calls |-> FALSE]
    /\ old = [c \in Calls |-> NoWorker]
    /\ overlapped = {} /\ closed = {}
    /\ faults = 0

\* A faulty variant: the handlers are installed and the object is not there.
NewRegistrarHalf(r) ==
    /\ r = Cardinality(created) + 1
    /\ handler' = r
    /\ UNCHANGED <<created, registry, closed, tracked, served, running, pc, owner,
                   restarts, old, overlapped, faults>>

\* __init__: add_signal_handler replaces the handler of another registrar.
NewRegistrar(r) ==
    /\ r = Cardinality(created) + 1
    /\ created' = created \cup {r}
    /\ handler' = r
    /\ UNCHANGED <<registry, closed, tracked, served, running, pc, owner,
                   restarts, old, overlapped, faults>>

Goto(c, to) == pc' = [pc EXCEPT ![c] = to]

Busy(r) == {c \in Calls : owner[c] = r /\ pc[c] \notin {"idle", "ended"}}

\* A call of r begins, to launch a worker in the end or not.
Begin(c, r, launches) ==
    /\ r \in created
    /\ c = Cardinality({d \in Calls : pc[d] # "idle"}) + 1
    /\ owner' = [owner EXCEPT ![c] = r]
    /\ restarts' = [restarts EXCEPT ![c] = launches]
    /\ overlapped' = IF Busy(r) = {} THEN overlapped ELSE overlapped \cup {r}

\* A faulty variant: the entry is read and stays in the dictionary.
StopTrackedKept(c, r) ==
    /\ old' = [old EXCEPT ![c] = tracked[r]]
    /\ Goto(c, "stopping")
    /\ UNCHANGED <<tracked, served, running>>

\* _shutdown_worker up to its await: the entry is popped.
StopTracked(c, r) ==
    /\ old' = [old EXCEPT ![c] = tracked[r]]
    /\ tracked' = [tracked EXCEPT ![r] = NoWorker]
    /\ Goto(c, "stopping")
    /\ UNCHANGED <<served, running>>

\* A faulty variant: what is registered was read before the await.
LaunchSnapshot(c, r, assets, others) ==
    /\ IF assets = {}
       THEN running' = others /\ UNCHANGED <<tracked, served>>
       ELSE /\ tracked' = [tracked EXCEPT ![r] = c]
            /\ served' = [served EXCEPT
                            ![c] = IF old[c] = NoWorker THEN assets
                                                        ELSE served[old[c]]]
            /\ running' = others \cup {c}
    /\ Goto(c, "ended")

\* The rest of _restart_worker, with no await: a worker for what is
\* registered now; one that is tracked already is overwritten.
Launch(c, r, assets, others) ==
    /\ IF assets = {}
       THEN running' = others /\ UNCHANGED <<tracked, served>>
       ELSE /\ tracked' = [tracked EXCEPT ![r] = c]
            /\ served' = [served EXCEPT ![c] = assets]
            /\ running' = others \cup {c}
    /\ Goto(c, "ended")

\* _restart_worker up to its first await.
Restart(c, r, assets) ==
    \/ tracked[r] # NoWorker /\ StopTracked(c, r)
    \/ tracked[r] = NoWorker /\ Launch(c, r, assets, running) /\ UNCHANGED old

\* register: refused while the queue has a worker, unless it overrides.
Register(c, r, assets, override) ==
    /\ Begin(c, r, TRUE)
    /\ tracked[r] = NoWorker \/ override
    /\ registry' = [registry EXCEPT ![r] = @ \cup assets]
    /\ Restart(c, r, registry[r] \cup assets)
    /\ UNCHANGED <<created, handler, closed, faults>>

\* register_workflow, register_activity, and each of register_module's.
RegisterLater(c, r, asset) ==
    /\ Begin(c, r, TRUE)
    /\ registry' = [registry EXCEPT ![r] = @ \cup {asset}]
    /\ Goto(c, "start")
    /\ UNCHANGED <<created, handler, closed, tracked, served, running, old, faults>>

\* A faulty variant: a queue that has a worker is left as it is.
StartRestartOnlyFirst(c) ==
    /\ pc[c] = "start"
    /\ IF tracked[owner[c]] = NoWorker
       THEN Restart(c, owner[c], registry[owner[c]])
       ELSE Goto(c, "ended") /\ UNCHANGED <<tracked, served, running, old>>
    /\ UNCHANGED <<registrarVars, owner, restarts, overlapped, faults>>

StartRestart(c) ==
    /\ pc[c] = "start"
    /\ Restart(c, owner[c], registry[owner[c]])
    /\ UNCHANGED <<registrarVars, owner, restarts, overlapped, faults>>

\* deregister, with or without remove_assets.
Deregister(c, r, remove) ==
    /\ Begin(c, r, FALSE)
    /\ registry' = IF remove THEN [registry EXCEPT ![r] = {}] ELSE registry
    /\ closed' = closed \cup {r}
    /\ \/ tracked[r] # NoWorker /\ StopTracked(c, r)
       \/ /\ tracked[r] = NoWorker
          /\ Goto(c, "ended")
          /\ UNCHANGED <<tracked, served, running, old>>
    /\ UNCHANGED <<created, handler, faults>>

\* A signal runs the shutdown of one registrar: gather makes a coroutine for
\* each queue that has a worker.
Signal(c) ==
    /\ handler # None /\ tracked[handler] # NoWorker
    /\ Begin(c, handler, FALSE)
    /\ closed' = closed \cup {handler}
    /\ Goto(c, "closing")
    /\ UNCHANGED <<created, handler, registry, tracked, served, running, old, faults>>

\* That coroutine pops the worker, if there is still one.
CloseWorker(c) ==
    /\ pc[c] = "closing"
    /\ \/ tracked[owner[c]] # NoWorker /\ StopTracked(c, owner[c])
       \/ /\ tracked[owner[c]] = NoWorker
          /\ Goto(c, "ended")
          /\ UNCHANGED <<tracked, served, running, old>>
    /\ UNCHANGED <<registrarVars, owner, restarts, overlapped, faults>>

\* A faulty variant: the worker is forgotten without being shut down.
WorkerForgotten(c) ==
    /\ pc[c] = "stopping"
    /\ Launch(c, owner[c], IF restarts[c] THEN registry[owner[c]] ELSE {}, running)
    /\ UNCHANGED <<registrarVars, owner, restarts, old, overlapped, faults>>

\* The old worker's shutdown returns; a restart goes on with what is
\* registered by now.
WorkerStopped(c) ==
    /\ pc[c] = "stopping"
    /\ Launch(c, owner[c], IF restarts[c] THEN registry[owner[c]] ELSE {},
              running \ {old[c]})
    /\ UNCHANGED <<registrarVars, owner, restarts, old, overlapped, faults>>

Fault == faults < MaxFaults /\ faults' = faults + 1

\* The constructor of Worker raises: the old worker is gone all the same.
LaunchFails(c) ==
    /\ restarts[c]
    /\ \/ pc[c] = "start" /\ tracked[owner[c]] = NoWorker /\ UNCHANGED running
       \/ pc[c] = "stopping" /\ running' = running \ {old[c]}
    /\ Goto(c, "ended")
    /\ Fault
    /\ UNCHANGED <<registrarVars, tracked, served, owner, restarts, old, overlapped>>

RegisterRaises(c, r, assets) ==
    /\ Begin(c, r, TRUE)
    /\ tracked[r] = NoWorker
    /\ registry' = [registry EXCEPT ![r] = @ \cup assets]
    /\ Goto(c, "ended")
    /\ Fault
    /\ UNCHANGED <<created, handler, closed, tracked, served, running, old>>

\* run() ends with an exception that nobody awaits: the entry stays.
WorkerDies(w) ==
    /\ w \in running
    /\ running' = running \ {w}
    /\ Fault
    /\ UNCHANGED <<registrarVars, tracked, served, pc, owner, restarts, old, overlapped>>

\* What health_check reports of the queue: a worker whose task is not done.
Healthy(r) == tracked[r] \in running

Step(c) == StartRestart(c) \/ CloseWorker(c) \/ WorkerStopped(c)

Terminating ==
    /\ created = Registrars
    /\ \A c \in Calls : pc[c] = "ended"
    /\ UNCHANGED vars

Next ==
    \/ \E r \in Registrars : NewRegistrar(r)
    \/ \E c \in Calls :
        \/ Step(c) \/ LaunchFails(c) \/ WorkerDies(c) \/ Signal(c)
        \/ \E r \in Registrars, a \in Assets :
              Register(c, r, {a}, TRUE) \/ Register(c, r, {a}, FALSE)
              \/ RegisterRaises(c, r, {a}) \/ RegisterLater(c, r, a)
        \/ \E r \in Registrars, remove \in BOOLEAN : Deregister(c, r, remove)
    \/ Terminating

Spec == Init /\ [][Next]_vars

\* The event loop runs every coroutine, and Worker.shutdown returns.
FairSpec == Spec /\ \A c \in Calls : WF_vars(Step(c))

-----------------------------------------------------------------------------
(* Properties *)

TypeOK ==
    /\ created \subseteq Registrars
    /\ handler \in created \cup {None}
    /\ registry \in [Registrars -> SUBSET Assets]
    /\ tracked \in [Registrars -> Calls \cup {NoWorker}]
    /\ served \in [Calls -> SUBSET Assets]
    /\ running \subseteq Calls
    /\ pc \in [Calls -> {"idle", "start", "closing", "stopping", "ended"}]
    /\ owner \in [Calls -> Registrars \cup {None}]
    /\ restarts \in [Calls -> BOOLEAN]
    /\ old \in [Calls -> Calls \cup {NoWorker}]
    /\ overlapped \subseteq created /\ closed \subseteq created
    /\ faults \in 0 .. MaxFaults

Stopping(w) == {c \in Calls : pc[c] = "stopping" /\ old[c] = w}

\* However restarts overlap, a registrar with no call under way knows a worker
\* for exactly what is registered: a restart that awaited the old worker's
\* shutdown launches with the registry as it is then.
TrackedIsCurrent ==
    \A r \in created : Busy(r) = {} /\ tracked[r] # NoWorker /\ faults = 0
        => served[tracked[r]] = registry[r]

\* Popping the entry before the await gives each worker to one call: no two
\* stop the same worker and none stops the one the registrar still counts on.
OneStopper ==
    \A w \in Calls :
        /\ Cardinality(Stopping(w)) <= 1
        /\ \A r \in created : tracked[r] = w => Stopping(w) = {}

\* A worker that is neither known nor being stopped runs for ever; a registrar
\* that never has two calls at once leaves none behind.
SerialCallsLeakNothing ==
    \A w \in running :
        \/ tracked[owner[w]] = w
        \/ Stopping(w) # {}
        \/ owner[w] \in overlapped

Serves(r, a) == Healthy(r) /\ a \in served[tracked[r]]

\* Until somebody closes it, a worker dies or a constructor raises, whatever a
\* registrar has registered is served now, or a restart that will serve it is
\* under way: the restarts of overlapping calls never cancel each other out.
UnservedMeansRestart ==
    faults = 0 => \A r \in Registrars : \A a \in registry[r] :
        \/ Serves(r, a)
        \/ r \in closed
        \/ \E c \in Calls : owner[c] = r /\ restarts[c] /\ pc[c] \in {"start", "stopping"}

\* What is registered is served in the end, by the worker the registrar knows,
\* unless somebody closes it, a worker dies or a constructor raises.
AssetsGetServed ==
    \A r \in Registrars, a \in Assets :
        (a \in registry[r]) ~> (Serves(r, a) \/ r \in closed \/ faults > 0)

\* A signal ends the workers of the registrar that receives it, if its calls
\* never overlap.  Those of an older registrar, whose handler was replaced, go
\* on, and so do those an overlap has leaked.
SignalStopsWorkers ==
    \A r \in Registrars :
        (\E c \in Calls : pc[c] = "closing" /\ owner[c] = r)
        ~> (r \in overlapped \/ \A w \in running : owner[w] # r)
=============================================================================
