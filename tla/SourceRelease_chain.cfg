CONSTANTS
    s1 = s1
    d1 = d1
    d2 = d2
    d3 = d3
    none = none
    Sources <- OneSource
    Digests <- ThreeTexts
    NoDigest = none
    Rules <- NoRules
    DependsOn <- NoDepends
    Cases <- NoRules
    CaseRules <- NoDepends
    MaxTime = 1
    DayLength = 1
    MaxCommits = 2
    MaxSnaps = 3
SYMMETRY SameThree
SPECIFICATION Spec
INVARIANTS
    RetainedStaysHeld
    RollbackRestores
    EvidenceInOrder
    ClearedOnApprovedText
PROPERTY
    LedgerEditVoids
CHECK_DEADLOCK FALSE
