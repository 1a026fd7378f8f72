\* One wiki page and two of an extension, two handlers, one command, two writes of each page.
SPECIFICATION RenderingSpec
CONSTANTS
    Wiki = {1}
    Ext = {2, 3}
    Writer = {w1, w2}
    Command = {k}
    Batch = 2
    MaxVersion = 3
    Nil = Nil
SYMMETRY WriterSymmetry
INVARIANTS RenderingTypeOK FilesAreComplete StaleIsAccountedFor RenderAllRestores
CHECK_DEADLOCK FALSE
