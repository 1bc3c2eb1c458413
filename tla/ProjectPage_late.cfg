SPECIFICATION FairSpec
CONSTANTS
    adu = adu  jadu = jadu  existing = existing  unknown = unknown
    woodland = woodland  davis = davis  k1 = k1  k2 = k2
    NoAnswer = NoAnswer  NoPlace = NoPlace  NoCall = NoCall  NoPanel = NoPanel
    NoText = NoText  NoBody = NoBody  NoResult = NoResult  NoClaim = NoClaim
    Types = {adu, jadu}
    Facts <- OneFact
    Values <- Choices
    Unknown = unknown
    Material <- AskedFor
    Places = {woodland, davis}
    PageRules <- Newer
    ServiceRules <- Older
    Calls = {k1, k2}
    MaxPresses = 4
CHECK_DEADLOCK FALSE
INVARIANT OnlyQuestionsWhenUnknown
