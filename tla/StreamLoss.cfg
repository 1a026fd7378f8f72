\* One agent; every way to lose an event can happen.
SPECIFICATION FairStreamSpec
CONSTANTS
    readme = readme
    LogAppended = LogAppended
    Label <- MCLabel
    Path = {readme}
    Subscriber = {a}
    Wants <- MCWants
    Failing = {readme}
    Limit = 2
    QueueSize = 2
    WireSize = 1
    MaxDrawn = 3
    MaxOpen = 2
    MayDie = TRUE
INVARIANTS StreamTypeOK LossIsAccountedFor ReplayAhead MirrorIsCurrent
PROPERTY LiveDelivery
