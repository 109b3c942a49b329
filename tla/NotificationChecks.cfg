SPECIFICATION FairSpec
CONSTANTS
    u1 = u1
    u2 = u2
    e1 = e1
    good = good
    bad = bad
    c1 = c1
    Nobody = Nobody
    NoDest = NoDest
    Users <- TwoUsers
    Endpoints <- OneEndpoint
    Chats <- MCChats
    BadChats <- MCBadChats
    Callers <- OneCaller
    DbFaults = TRUE
INVARIANT TypeOK
INVARIANT ReachesOwnOnly
INVARIANT LogKeepsUp
INVARIANT ReturnsDone
PROPERTY AllAreTried
