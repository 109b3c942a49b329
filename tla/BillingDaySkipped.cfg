SPECIFICATION FairSpec
CONSTANTS
    s1 = s1
    Ids <- MCIds
    LastDay <- Window
    DayOfMonth <- WindowDay
    MonthOf <- WindowMonth
    BillingDays <- EveryMonth
    NoBilling = NoBilling
    NoDay = NoDay
    MaxCrashes = 0
    CalmCap = 31
    DbFaults = FALSE
PROPERTY DailyCheck
\* The calendar ends with LastDay.
CHECK_DEADLOCK FALSE
