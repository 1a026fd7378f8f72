\* A write, an embed and two deregistrations on two extension pages, with
\* everything they wait for, in circles too.
SPECIFICATION FairSpec
CONSTANTS
    Path = {crm, lead}
    ExtPath = {crm, lead}
    Seeded = {crm, lead}
    Writers = {w1}
    Embedders = {e1}
    Loggers = {}
    Emitters = {}
    Deregs = {d1, d2}
    BaseVersion = {1, 2}
    Nil = Nil
INVARIANT PinnedRow
PROPERTIES CheckedUpdate EveryRequestEnds
