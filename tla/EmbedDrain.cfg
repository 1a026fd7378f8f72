\* Two writes of a wiki page and an extension page, a deregistration, and the
\* worker that drains the queue meanwhile.
SPECIFICATION FairPipelineSpec
CONSTANTS
    Path = {readme, crm}
    ExtPath = {crm}
    Seeded = {readme, crm}
    Writers = {w1, w2}
    Embedders = {}
    Loggers = {}
    Emitters = {}
    Deregs = {d1}
    BaseVersion = {1, 2}
    MaxAttempts = 2
    Nil = Nil
INVARIANTS FreshWhenDrained LabelNotAhead
PROPERTY JobsRetire
