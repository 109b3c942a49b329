SPECIFICATION FairSpec
CONSTANTS
    s1 = s1
    Ids <- MCIds
    LastDay <- Window
    DayOfMonth <- WindowDay
    MonthOf <- WindowMonth
    BillingDays <- SomeMonths
    NoBilling = NoBilling
    NoDay = NoDay
    MaxCrashes = 0
    CalmCap = 31
    DbFaults = FALSE
PROPERTY MonthlyReset
\* The calendar ends with LastDay.
CHECK_DEADLOCK FALSE
