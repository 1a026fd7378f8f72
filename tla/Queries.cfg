\* Two wiki pages and one of an extension, two writes while the caller reads.
SPECIFICATION QueriesSpec
CONSTANTS
    Wiki = {a, b}
    Ext = {e}
    ListLimit = 1
    SearchLimit = 2
    Depth = 1
    MinWindow = 1
    K = 60
    MaxGv = 5
SYMMETRY WikiSymmetry
INVARIANTS QueriesTypeOK ListedOnce FusionIsFair
CHECK_DEADLOCK FALSE
