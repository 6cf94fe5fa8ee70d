SPECIFICATION Spec
CONSTANTS
    TagAt = 30
    QuarantineAt = 60
    BlockAt = 80
    Msg <- OneMessage
    MaxAttempts = 1
    MailKinds <- SomeMails
    MailboxKinds <- SomeMailboxes
    Fallback <- Defaults
    RelayActions <- HoldAndDrop
    Facts <- AllFacts
    Added <- SomeAdded
    YaraDeltas <- SomeYara
    MaxCallbacks = 1
    UserFolders <- AnyFolder
    Faults <- AllFaults
    MaxFaults = 2
INVARIANTS
    TypeOK
    Contained
    RecordsTrue
    SilentMailboxes
PROPERTIES
    VerdictOnlyTightens
    OnlyUserReleases
    AnnouncedTruly
    ImplementsRegister
CHECK_DEADLOCK FALSE
