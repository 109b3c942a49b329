SPECIFICATION FairSpec
CONSTANTS
    u1 = u1
    u2 = u2
    e1 = e1
    e2 = e2
    Nobody = Nobody
    NoEndpoint = NoEndpoint
    Users <- TwoUsers
    Endpoints <- TwoEndpoints
    LoginLife = 1
    SessionLife = 1
INVARIANT DisableMeansRegistered
