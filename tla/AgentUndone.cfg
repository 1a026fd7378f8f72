\* A queued write is refused when it is replayed.
SPECIFICATION AgentSpec
CONSTANTS
    Local = {a1, a2}
    Remote = {r1}
    Flushes = {f1}
    MaxCrashes = 1
    Nil = Nil
PROPERTIES NothingUndone
CHECK_DEADLOCK FALSE
