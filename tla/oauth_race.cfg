SPECIFICATION Spec
CONSTANTS
    r1 = r1
    r2 = r2
    Request = {r1, r2}
    MaxClients = 1
    Places <- MCPlaces
    Asked <- MCAsked
    AccessTtl = 1
    RefreshTtl = 2
    CodeTtl = 1
    TicketTtl = 1
    TransferTtl = 1
    MaxTime = 1
    MaxDrawn = 4
    MaxRestarts = 1
    Faults = {"disk"}
SYMMETRY Interchangeable
INVARIANTS
    SingleUse
CHECK_DEADLOCK FALSE
