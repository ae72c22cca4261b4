CONSTANTS
    c1 = c1
    c2 = c2
    c3 = c3
    t1 = t1
    t2 = t2
    Clients = {c1, c2, c3}
    Tasks = {t1, t2}
    Rows = {t1, t2}
    Stored = {t1}
    Index <- MCIndex
    Operators <- MCOperators
    PoolSize = 2
    Nobody = Nobody
    Controls = {"cancelled"}
    Updates = {"running"}
    MaxCalls = 1
    MaxFaults = 1
SPECIFICATION FairSpec
INVARIANTS
    TypeOK
    VersionCountsWrites
    IdleHoldsNothing
    ConflictIsReal
    OnlyInsertsDeadlock
PROPERTIES
    EveryCallEnds
    CallsRunOut
    RowSpec
