SPECIFICATION ReceiptsSpec
CONSTANTS
    b1 = b1  b2 = b2  c1 = c1  v1 = v1  v2 = v2
    NoFile = NoFile  Altered = Altered  Other = Other  Running = Running
    Builders <- TwoBuilders
    Earlier <- SecondBuilder
    Consumers <- OneConsumer
    Listed <- FirstListed
    Versions <- TwoVersions
    Sound <- OneVersion
    MaxCommits = 2
    Codes <- TwoCodes
    ChecksOf <- TwoChecks
    Finds <- FoundBy
    Excerpts <- ThreePassages
    RightLabels <- LabelOf
    CaseNames <- TwoCases
    Stratum <- BothOfficial
    Aim <- AimOf
    Role <- BothFlag
    Documents <- ThreeDocs
    Development <- Developed
    Minimum <- OneFlag
    FirstCode = "v1"
    FirstPassages <- PassageOf
    FirstSource <- FirstDoc
    MaxMoment = 2
    MaxRevisions = 2
    None = None
    w1 = w1  w2 = w2
    Writers <- TwoWriters
    Receipts <- ThreeReceipts
    NoDirectory = NoDirectory
    MaxCuts = 1
CHECK_DEADLOCK FALSE
INVARIANTS
    ArchiveIsCommit
    RestoredIsSound
    VerifiedIsSigned
    ResultOfOneCorpus
    PackageSurvives
PROPERTIES
    NothingReplaced
    ReceiptRevalidates
