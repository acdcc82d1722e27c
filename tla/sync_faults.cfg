SPECIFICATION Spec
CONSTANTS
    p = p
    q = q
    r = r
    task = task
    pusher = pusher
    Path = {p, q, r}
    ToolPath = {p}
    EditPath = {p}
    RemotePath = {p}
    Task = {task}
    Pusher = pusher
    MaxWrites = 1
    MaxEdits = 1
    MaxRemote = 1
    MaxKills = 1
    ReadOnlyModes = {TRUE, FALSE}
    Faults = {"commit", "kill", "rebase", "diff"}
INVARIANTS
    NoMarkers
PROPERTIES
    EditsKept
