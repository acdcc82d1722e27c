SPECIFICATION FairSpec
CONSTANTS
    p = p  q = q  r = r
    a = a  b = b  w = w
    None = None
    Path = {p, q, r}
    Content = {a, b, w}
    NewContent = {w}
    MaxItems = 1
    MaxRelinks = 1
    Batches <- CoreBatches
    Admissible <- Unvalidated
    Vaults <- TwoNotes
    MaxBatches = 1
    MaxOps = 3
    MaxTrash = 1
    FaultPoints = {"journal", "apply", "undo", "backup", "unlink", "read"}
INVARIANTS
    WriteAhead
PROPERTIES
    NoClobber
    AlwaysReturns
