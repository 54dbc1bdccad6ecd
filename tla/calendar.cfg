SPECIFICATION Spec
CONSTANTS
    NoPeriod = NoPeriod
    Years = {2024, 2025}
    NoWord = NoWord
    food = food
    ride = ride
    Categories <- MCCategories
    Claims <- MCClaims
    Questions <- MCQuestions
    DueDays = {1, 29, 31}
    MaxDelay = 3
INVARIANTS
    NamedPeriodsAreAnswered
    PeriodsFit
    MonthlySubscriptionsFound
\* Each behaviour is one request: when it is answered the system stops.
CHECK_DEADLOCK FALSE
