CONSTANTS
    a = a
    b = b
    MaxRegistrars = 2
    Assets = {a, b}
    MaxCalls = 4
    MaxFaults = 1
SPECIFICATION FairSpec
INVARIANTS
    TypeOK
    TrackedIsCurrent
    OneStopper
    SerialCallsLeakNothing
    UnservedMeansRestart
PROPERTIES
    AssetsGetServed
    SignalStopsWorkers
