SPECIFICATION Spec
CONSTANTS
    Proc = {p1, p2}
    NoProc = NoProc
    NoJournal = NoJournal
    NoPair = NoPair
    MaxTx = 3
    OrderedMetadata = TRUE
INVARIANTS
    CrashRecoverable
    AckedSurvives
    PublishedSurvives
    RejectedStaysOut
    FreshIsCurrent
PROPERTIES
    ImplementsRegister
