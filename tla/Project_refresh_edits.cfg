SPECIFICATION MCSpec
CONSTANTS
    Outcomes = {"success", "failed", "cancelled"}
    NoOp = NoOp
    Ops = {o1}
    Requests = {r1}
    Containers = {c1, c2}
    c3 = c3
    e1 = e1
    MaxCrashes = 1
    MaxDbErrors = 1
    MaxCycles = 2
    MaxInits = 2
    MaxMains = 2
    None = None
    MaxTime = 4
    MaxLines = 5
    Limit = 2
    Window = 2
    Buffer = 1
SYMMETRY Symmetry
CHECK_DEADLOCK FALSE
PROPERTIES
    
    AnswersAreRight
