SPECIFICATION Spec
CONSTANTS
    Outcomes = {"success", "failed", "cancelled"}
    NoOp = NoOp
    Ops = {o1}
    Requests = {r1}
    Edits = {}
    Containers = {c1}
    Environment = {"refreshDeploy"}
    MaxCrashes = 0
    MaxDbErrors = 0
CHECK_DEADLOCK FALSE
PROPERTY
    TerminalIsFinal
