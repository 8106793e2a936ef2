SPECIFICATION Spec
CONSTANTS
    Callers = {c1, c2, c3}
    IDs = {i1, i2}
    MaxVersion = 2
    NoOne = NoOne
    NoTask = NoTask
    Torn = Torn
    NoFile = NoFile
SYMMETRY Symmetry
INVARIANTS
    TypeOK
    Durable
    Remembers
PROPERTY NoRollback
