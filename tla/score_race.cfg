SPECIFICATION Spec
CONSTANTS
    TagAt = 30
    QuarantineAt = 60
    BlockAt = 80
    Msg <- OneMessage
    MaxAttempts = 1
    MailKinds <- OneMail
    MailboxKinds <- OneYara
    Fallback <- Defaults
    RelayActions <- HoldAndDrop
    Facts <- SomeFacts
    Added <- SomeAdded
    YaraDeltas <- SomeYara
    MaxCallbacks = 1
    UserFolders <- InboxOnly
    Faults <- NoFaults
    MaxFaults = 0
PROPERTY
    ScoreNeverFalls
CHECK_DEADLOCK FALSE
