SPECIFICATION FairSpec
CONSTANTS
    m1 = m1
    m2 = m2
    c1 = c1
    c2 = c2
    s1 = s1
    s2 = s2
    w1 = w1
    w2 = w2
    NoCategory = NoCategory
    NoMessage = NoMessage
    Items <- MCOneItem
    Merchants <- MCMerchants
    MerchantOf <- MCOneMerchantOf
    Categories <- MCOneCategory
    Suggested <- MCOneSuggested
    Sessions <- OneSession
    Workers <- OneWorker
    Verbs <- EveryVerb
    Quiet = TRUE
    MaxRetries = 3
    MaxRequests = 1
    MaxFailures = 1
    MaxFaults = 0
PROPERTIES
    DecidedIsBooked
\* The requests are bounded: when all are answered the system stops.
CHECK_DEADLOCK FALSE
