SPECIFICATION FairSpec
CONSTANTS
    p = p
    q = q
    r = r
    task = task
    pusher = pusher
    Path = {p, q, r}
    ToolPath = {q}
    EditPath = {q}
    RemotePath = {r}
    Task = {}
    Pusher = pusher
    MaxWrites = 2
    MaxEdits = 1
    MaxRemote = 2
    MaxKills = 1
    ReadOnlyModes = {FALSE}
    Faults = {"offline", "lost", "kill"}
INVARIANTS
    EventsComplete
PROPERTIES
    HealthHonest
    BacklogDrains
