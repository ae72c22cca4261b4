CONSTANTS
    c1 = c1
    c2 = c2
    c3 = c3
    Clients = {c1, c2, c3}
    Names = {"parse"}
    None = None
    MaxCalls = 2
SPECIFICATION Spec
PROPERTY
    MismatchMeansConflict
