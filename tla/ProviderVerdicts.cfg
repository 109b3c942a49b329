SPECIFICATION Spec
CONSTANTS
    Absent = Absent
    Shares <- MCShares
    Limits <- MCLimits
INVARIANT FullMeansBlocked
INVARIANT PathsAgree
INVARIANT MoreUseStaysBlocked
\* One call is made.
CHECK_DEADLOCK FALSE
