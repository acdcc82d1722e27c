SPECIFICATION FairSpec
CONSTANTS
    p = p  q = q  r = r
    a = a  b = b  w = w
    None = None
    Path = {p, q, r}
    Content = {a, b, w}
    NewContent = {w}
    MaxItems = 2
    MaxRelinks = 1
    Batches <- ToolBatches
    Admissible <- Validated
    Vaults <- TwoNotes
    MaxBatches = 1
    MaxOps = 3
    MaxTrash = 1
    FaultPoints = {"journal", "apply"}
INVARIANTS
    CrashConsistent
    NothingLeft
PROPERTIES
    Refines
