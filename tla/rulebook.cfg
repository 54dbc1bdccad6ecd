SPECIFICATION MCSpec
CONSTANTS
    m1 = m1
    c1 = c1
    Broad = Broad
    Hint = Hint
    NoName = NoName
    NoRule = NoRule
    NoOp = NoOp
    NoResult = NoResult
    Merchants <- MCMerchants
    Candidates <- MCCandidates
    Items <- MCItems
    MerchantOf <- MCMerchantOf
    Workers <- MCWorkers
    Sessions <- MCSessions
    MaxStarted = 3
    MaxFaults = 1
ACTION_CONSTRAINT StandsIn
INVARIANTS
    TypeOK
    HitsAreMatches
    CorrectedIsLearned
    AutoBookedIsVetted
    CirclesTakeABatchAndACorrection
PROPERTIES
    EveryTransactionEnds
\* The transactions are bounded: when all have ended the system stops.
CHECK_DEADLOCK FALSE
