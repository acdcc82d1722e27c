SPECIFICATION FairSpec
CONSTANTS
    r1 = r1
    r2 = r2
    Request = {r1}
    MaxClients = 1
    Places <- MCPlaces
    Asked <- MCAsked
    AccessTtl = 1
    RefreshTtl = 2
    CodeTtl = 1
    TicketTtl = 1
    TransferTtl = 1
    MaxTime = 2
    MaxDrawn = 4
    MaxRestarts = 0
    Faults = {}
PROPERTIES
    AllAnswered
CHECK_DEADLOCK FALSE
