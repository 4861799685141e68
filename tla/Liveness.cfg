SPECIFICATION MCSpec
CONSTANTS
    Outcomes = {"success", "failed", "cancelled"}
    NoOp = NoOp
    Ops = {o1}
    Requests = {r1}
    Edits = {}
    Containers = {c1}
    Environment = {"refreshDeploy", "unreachable"}
    MaxCrashes = 1
    MaxDbErrors = 1
    MaxMessages = 2
    MaxEvents = 2
    Parts <- LongThenShort
    Eof = Eof
    Closed = Closed
    Broken = Broken
    Nothing = Nothing
CHECK_DEADLOCK FALSE
INVARIANT
    LogsSound
PROPERTY
    RunEnds
    LockReleased
    DeployRecovers
    StreamsEnd
