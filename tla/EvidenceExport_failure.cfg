SPECIFICATION Spec
CONSTANTS
    b1 = b1  b2 = b2  c1 = c1  v1 = v1  v2 = v2
    NoFile = NoFile  Altered = Altered  Other = Other  Running = Running
    Builders <- OneBuilder
    Earlier <- Nobody
    Consumers <- OneConsumer
    Listed <- FirstListed
    Versions <- TwoVersions
    Sound <- OneVersion
    MaxCommits = 1
CHECK_DEADLOCK FALSE
PROPERTY FailureLeavesNothing
