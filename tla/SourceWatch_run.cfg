SPECIFICATION Spec
CONSTANTS
    statute = statute
    handbook = handbook
    parking = parking
    height = height
    k1 = k1
    k2 = k2
    Order <- TwoSources
    Rules = {height}
    Deps <- OneDep
    Cites <- OneCites
    Runs = {k1}
    Attempts = 2
    MaxAge = 0
    MaxDay = 1
    MaxVersion = 1
    MaxIssues = 2
    MaxAborts = 0
    MaxCommits = 1
INVARIANTS OneOpenIssue
PROPERTIES FiledOnEvidence ClosedOnReading NothingSwallowed
