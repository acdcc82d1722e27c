SPECIFICATION Spec
CONSTANTS
    p = p
    q = q
    r = r
    task = task
    pusher = pusher
    Path = {p, q, r}
    ToolPath = {p}
    EditPath = {q}
    RemotePath = {p, r}
    Task = {task}
    Pusher = pusher
    MaxWrites = 1
    MaxEdits = 1
    MaxRemote = 1
    MaxKills = 1
    ReadOnlyModes = {FALSE}
    Faults = {"lost"}
INVARIANTS
    Attributed
    OnlyEditsUncommitted
