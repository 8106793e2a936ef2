SPECIFICATION Spec
CONSTANTS
    n1 = n1
    n2 = n2
    x = x
    y = y
    Names = {n1, n2}
    Tools = {x, y}
    Files = {"f1", "f2"}
    Targets = {"codex", "other"}
    Default = "codex"
    Listing <- MCListing
    Entries <- MCEntries
    Checks = {k1, k2}
    Bare = Bare
    NoServer = NoServer
SYMMETRY CheckSymmetry
INVARIANTS
    TypeOK
    IndexExact
    HealthApplied
