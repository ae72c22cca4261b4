CONSTANTS
    TotalTimeouts = {0, 1, 6}
    PollIntervals = {0, 1, 3}
    RequestTimeouts = {0, 1, 2}
    NotGiven = NotGiven
    MaxWaits = 2
SPECIFICATION FairSpec
INVARIANTS
    TypeOK
    OverrunBounded
    TimeoutIsReal
    OutcomeIsTrue
PROPERTIES
    StepsRunOut
    CallEnds
