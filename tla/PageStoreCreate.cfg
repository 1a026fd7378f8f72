\* Two clients create the same page.
SPECIFICATION Spec
CONSTANTS
    Path = {readme}
    ExtPath = {}
    Seeded = {}
    Writers = {w1, w2}
    Embedders = {}
    Loggers = {}
    Emitters = {}
    Deregs = {}
    BaseVersion = {1}
    Nil = Nil
INVARIANT OneWinnerPerVersion
