\* One agent, one writer at a time, nothing fails and no queue fills up.
SPECIFICATION StreamSpec
CONSTANTS
    readme = readme
    LogAppended = LogAppended
    Label <- MCLabel
    Path = {readme}
    Subscriber = {a}
    Wants <- MCWants
    Failing = {}
    Limit = 9
    QueueSize = 3
    WireSize = 3
    MaxDrawn = 2
    MaxOpen = 1
    MayDie = FALSE
INVARIANT NothingLost
