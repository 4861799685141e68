SPECIFICATION Spec
CONSTANTS
    Outcomes = {"success", "skipped", "failed", "cancelled"}
    Builds = {b1, b2}
    Requests = {}
    Unreachable = {}
    MaxCrashes = 0
    MaxDbErrors = 1
CHECK_DEADLOCK FALSE
SYMMETRY Symmetry
INVARIANT
    TypeOK
PROPERTY
    ImplementsOutcome
