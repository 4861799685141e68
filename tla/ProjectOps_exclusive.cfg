SPECIFICATION MCSpec
CONSTANTS
    Outcomes = {"success", "failed", "cancelled"}
    NoOp = NoOp
    Ops = {o1, o2}
    Requests = {r1}
    Edits = {e1}
    Containers = {c1}
    Environment = {"refreshDeploy"}
    MaxCrashes = 0
    MaxDbErrors = 0
CHECK_DEADLOCK FALSE
SYMMETRY Symmetry
INVARIANT
    TypeOK
    LockPair
    OwnerIsUnfinished
    FinishedIffCompleted
    OwnerIsMonitored

    
    
