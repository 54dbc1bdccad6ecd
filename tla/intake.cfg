SPECIFICATION Spec
CONSTANTS
    shop = shop
    cafe = cafe
    Cafe = Cafe
    r1 = r1
    r2 = r2
    r3 = r3
    NoRef = NoRef
    Purchases <- MCPurchases
    OriginOf <- MCOriginOf
    References <- MCReferences
    Merchants <- MCMerchants
    Normal <- MCNormal
    Files <- MCFiles
    Content <- MCContent
    Notes <- MCNotes
    FirstTick = 4
    MaxTicks = 5
    MaxRequests = 2
    MaxFaults = 1
ACTION_CONSTRAINT ReviewedOnly
INVARIANTS
    OnceThroughItsChannel
    LostBillsAreTwins
    AcceptedIsKept
    RejectedDoesNotReturn
\* The requests are bounded: when all are served the system stops.
CHECK_DEADLOCK FALSE
