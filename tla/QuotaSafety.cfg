SPECIFICATION RoundSpec
CONSTANTS
    s1 = s1
    s2 = s2
    u1 = u1
    u2 = u2
    t1 = t1
    t2 = t2
    r1 = r1
    Ids <- MCIds
    Users <- MCUsers
    Services <- Claude
    Tokens <- OneToken
    Reqs <- OneReq
    Polled <- MCPolled
    Refreshable <- MCRefreshable
    NoToken = NoToken
    NoRow = NoRow
    NoJob = NoJob
    ForeignKeys = FALSE
    DbFaults = TRUE
SYMMETRY Interchangeable
INVARIANT TypeOK
INVARIANT SnapshotKeepsOwner
INVARIANT NewStartsClean
INVARIANT PromiseRemembered
INVARIANT AlertsAlternate
INVARIANT RoundSettles
INVARIANT RoundTells
PROPERTY FlipsAnnounced
