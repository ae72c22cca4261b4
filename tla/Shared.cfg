CONSTANTS
    t1 = t1
    t2 = t2
    r1 = r1
    p1 = p1
    p2 = p2
    q1 = q1
    s1 = s1
    s2 = s2
    Tasks <- MCTasks
    Queues = {q1}
    QueueOf <- MCQueueOf
    QueueRows = {q1}
    MaxConcurrent <- MCMaxConcurrent
    Procs = {p1, p2}
    Recoverers = {r1}
    ProcOf <- MCProcOf
    Schedulers = {s1, s2}
    SchedulerOf <- MCSchedulerOf
    Retries <- MCRetries
    Translatable = {t1}
    Configured = {t1, t2}
    MaxFaults = 1
    MaxCrashes = 1
    MaxShutdowns = 1
SPECIFICATION Spec
INVARIANTS
    TypeOK
    SlotHasOwner
    LocksMoveOn
PROPERTY
    CallsRunOut
