\* Concurrent writes of an existing and of a new wiki page, a log.append and an
\* ext.emit_event.
SPECIFICATION Spec
CONSTANTS
    Path = {readme, index}
    ExtPath = {}
    Seeded = {readme}
    Writers = {w1, w2}
    Embedders = {}
    Loggers = {l1}
    Emitters = {m1}
    Deregs = {}
    BaseVersion = {0, 1, 2}
    Nil = Nil
SYMMETRY WriterSymmetry
INVARIANTS TypeOK LatestEventDescribesPage
PROPERTIES PageVersionsRise TruthfulConflict ImplementsCasStore ImplementsEventLog
