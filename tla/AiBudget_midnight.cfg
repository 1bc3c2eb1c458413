SPECIFICATION BudgetSpec
CONSTANTS
    t1 = t1
    t2 = t2
    t3 = t3
    c1 = c1
    c2 = c2
    i1 = i1
    i2 = i2
    Threads = {t1, t2}
    Clients = {c1}
    Instances = {i1}
    InstanceOf <- TwoThreads
    Backend = "memory"
    Cap = 2
    PerClient = 3
    Window = 2
    DayOf <- Midnight
    NoClient = NoClient
    MaxTime = 3
    MaxWindows = 2
    MaxRestarts = 0
INVARIANTS DailyCapHard
