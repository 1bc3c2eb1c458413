SPECIFICATION BudgetSpec
CONSTANTS
    t1 = t1
    t2 = t2
    t3 = t3
    c1 = c1
    c2 = c2
    i1 = i1
    i2 = i2
    Threads = {t1, t2, t3}
    Clients = {c1}
    Instances = {i1, i2}
    InstanceOf <- Shared
    Backend = "dynamo"
    Cap = 1
    PerClient = 2
    Window = 2
    DayOf <- Midnight
    NoClient = NoClient
    MaxTime = 2
    MaxWindows = 1
    MaxRestarts = 1
SYMMETRY PoolPairs
INVARIANTS RateLimitNow
PROPERTY ImplementsDailyCap
