SPECIFICATION FairSpec
CONSTANTS
    Clients <- MCClients
    Does <- MCDoes
    Within <- MCWithin
    Notes = {1, 2}
    InDir = {2}
    Start = {1}
    PageSizes = {1}
    MaxMarks = 2
    MaxOutside = 1
INVARIANTS
    IndexIsSnapshot
    ListingComplete
    ReportsTrue
    AllCommitted
PROPERTIES
    NothingLost
    CallsEnd
