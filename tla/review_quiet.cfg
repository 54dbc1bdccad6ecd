SPECIFICATION Spec
CONSTANTS
    m1 = m1
    m2 = m2
    c1 = c1
    c2 = c2
    s1 = s1
    s2 = s2
    w1 = w1
    w2 = w2
    NoCategory = NoCategory
    NoMessage = NoMessage
    Items <- MCItems
    Merchants <- MCMerchants
    MerchantOf <- MCMerchantOf
    Categories <- MCCategories
    Suggested <- MCSuggested
    Sessions <- OneSession
    Workers <- TwoWorkers
    Verbs <- EveryVerb
    Quiet = TRUE
    MaxRetries = 3
    MaxRequests = 2
    MaxFailures = 1
    MaxFaults = 1
SYMMETRY ActorSymmetry
INVARIANTS
    TypeOK
    RejectedNotBooked
    BookedAsCorrected
    SecondBookingsAreExcused
PROPERTIES
    DecisionIsFinal
\* The requests are bounded: when all are answered the system stops.
CHECK_DEADLOCK FALSE
