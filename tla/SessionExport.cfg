SPECIFICATION Spec
CONSTANTS
    p1 = p1
    p2 = p2
    Procs = {p1, p2}
    None = None
    Unreadable = Unreadable
    NoSession = NoSession
    NoLedger = NoLedger
    BadLedger = BadLedger
    NoBest = NoBest
    ToBeDecided = ToBeDecided
    Chain <- MCChain
    Requests <- MCRequests
    Worth <- MCWorth
    Oversize = {"plain"}
    Checkout <- MCCheckout
    Initiatives = {}
    Group <- MCGroup
    Folder <- MCFolder
    OldDumps <- MCDumps
    OldMarkers <- MCMarkers
    OldLedgers <- MCLedgers
    OldStore <- MCStore
    CredentialShaped = {}
    Bundled = {"bundled"}
    Redacted <- MCRedacted
    MaxBatch = 2
    Positions = {}
    Rank <- MCRank
    RubricRoles = {"dev"}
    MaxQuestions = 1
    MaxCalls = 2
INVARIANTS
    TypeOK
    ReceiptsNameWhatIsStored
PROPERTIES
    ProposalsOnlyCreate
    DryRunSpendsNothing
    AttemptsAreSpentFirst
CHECK_DEADLOCK FALSE
