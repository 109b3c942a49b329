SPECIFICATION FairSpec
CONSTANTS
    s1 = s1
    s2 = s2
    u1 = u1
    u2 = u2
    t1 = t1
    t2 = t2
    r1 = r1
    Ids <- OneId
    Users <- OneUser
    Services <- Claude
    Tokens <- OneToken
    Reqs <- OneReq
    Polled <- MCPolled
    Refreshable <- MCRefreshable
    NoToken = NoToken
    NoRow = NoRow
    NoJob = NoJob
    ForeignKeys = FALSE
    DbFaults = FALSE
PROPERTY PromiseKept
