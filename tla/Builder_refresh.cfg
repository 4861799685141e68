SPECIFICATION FairSpec
CONSTANTS
    Outcomes = {"success", "skipped", "failed", "cancelled"}
    Builds = {b1}
    Requests = {r1, r2}
    Unreachable = {b1, r1}
    MaxCrashes = 1
    MaxDbErrors = 1
CHECK_DEADLOCK FALSE
INVARIANT
    TektonDecides
PROPERTY
    EventKept
    WorkerReturns
    RecordsRecover
