SPECIFICATION Spec
CONSTANTS
    ma = ma
    mb = mb
    food = food
    fun = fun
    NoMerchant = NoMerchant
    NoCategory = NoCategory
    NoAmount = NoAmount
    NewestFirst <- MCNewestFirst
    Week <- MCWeek
    TypeOf <- MCTypeOf
    MerchantOf <- MCMerchantOf
    CategoryOf <- MCCategoryOf
    AmountOf <- MCAmountOf
    Containing <- MCContaining
    PageSize = 2
    MaxGroups = 1
    Limit = 2
    MaxLength = 5
    MaxChanges = 2
INVARIANTS
    TypeOK
    ReadIsOffByChanges
    AlarmsAreReal
    CountsAreOffByTwo
    QuietReportsAreExact
\* One reading is modelled: when it is reported the system stops.
CHECK_DEADLOCK FALSE
