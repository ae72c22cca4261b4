CONSTANTS
    t1 = t1
    t2 = t2
    t3 = t3
    p1 = p1
    q1 = q1
    q2 = q2
    s1 = s1
    Tasks <- MCTasks
    Queues = {q1, q2}
    QueueOf <- MCQueueOf
    QueueRows = {q1}
    MaxConcurrent <- MCMaxConcurrent
    Procs = {p1}
    Recoverers = {}
    ProcOf <- MCProcOf
    Schedulers = {s1}
    SchedulerOf <- MCSchedulerOf
    Retries <- MCRetries
    Translatable = {t1, t2, t3}
    Configured = {t1, t2, t3}
    MaxFaults = 1
    MaxCrashes = 1
    MaxShutdowns = 1
SPECIFICATION Spec
INVARIANTS
    OutcomeRecorded
    StartsBounded
    AttemptsWithinABudget
PROPERTIES
    WaitOnlyExpires
    PoolSpec
