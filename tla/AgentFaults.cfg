\* Two edits here and two elsewhere, two flushes in flight, two crashes.
SPECIFICATION AgentSpec
CONSTANTS
    Local = {a1, a2}
    Remote = {r1, r2}
    Flushes = {f1, f2}
    MaxCrashes = 2
    Nil = Nil
SYMMETRY Symmetric
INVARIANTS AgentTypeOK NoEcho SentIsKept UnsentIsPending
PROPERTIES RemoteIsSeen
\* The edits run out and the agent comes to rest.
CHECK_DEADLOCK FALSE
