SPECIFICATION FairSpec
CONSTANTS
    statute = statute
    handbook = handbook
    parking = parking
    height = height
    k1 = k1
    k2 = k2
    Order <- OneSource
    Rules = {parking}
    Deps <- OwnDep
    Cites <- OwnCites
    Runs = {k1, k2}
    Attempts = 1
    MaxAge = 1
    MaxDay = 0
    MaxVersion = 1
    MaxIssues = 4
    MaxAborts = 1
    MaxCommits = 1
PROPERTIES AlertsClear DriftAlerted
