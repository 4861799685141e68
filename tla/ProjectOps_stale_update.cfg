SPECIFICATION Spec
CONSTANTS
    Outcomes = {"success", "failed", "cancelled"}
    NoOp = NoOp
    Ops = {o1, o2}
    Requests = {}
    Edits = {e1}
    Containers = {c1}
    Environment = {"update"}
    MaxCrashes = 0
    MaxDbErrors = 0
CHECK_DEADLOCK FALSE
INVARIANT
    ExclusiveRun
