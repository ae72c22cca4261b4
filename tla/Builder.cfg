CONSTANTS
    a = a
    b = b
    c = c
    s1 = s1
    s2 = s2
    Names = {a, b, c}
    Stages = {s1, s2}
    NoStage = NoStage
    MaxEdges = 4
SPECIFICATION Spec
SYMMETRY Symmetry
INVARIANTS
    TypeOK
    PlanRespectsDependencies
    PlanIsEarliest
    CyclesRefused
