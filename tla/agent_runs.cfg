SPECIFICATION FairSpec
CONSTANTS
    r1 = r1
    summarize_spending = summarize_spending
    detect_subscriptions = detect_subscriptions
    bad_tool = bad_tool
    Runs <- MCOneRun
    Tools <- MCTools
    Unknown <- MCUnknown
    MaxToolCalls = 3
    MaxFaults = 1
INVARIANTS
    TypeOK
    WithinBudget
    TrailTellsSteps
    AnswerIsAudited
PROPERTIES
    EveryQueryEnds
\* The requests are a given set: when all are answered the system stops.
CHECK_DEADLOCK FALSE
