SPECIFICATION Spec
CONSTANTS
    s1 = s1
    Ids <- MCIds
    LastDay <- Window
    DayOfMonth <- WindowDay
    MonthOf <- WindowMonth
    BillingDays <- EveryMonth
    NoBilling = NoBilling
    NoDay = NoDay
    MaxCrashes = 1
    CalmCap = 31
    DbFaults = TRUE
INVARIANT TypeOK
INVARIANT OncePerRun
PROPERTY CalmDaysChecked
PROPERTY RemindersPrecedeResets
PROPERTY MonthlyReset
PROPERTY DatesAreKept
\* The calendar ends with LastDay.
CHECK_DEADLOCK FALSE
