SPECIFICATION FairSpec
CONSTANTS
    TagAt = 30
    QuarantineAt = 60
    BlockAt = 80
    Msg <- OneMessage
    MaxAttempts = 2
    MailKinds <- Unattached
    MailboxKinds <- OneGateway
    Fallback <- Defaults
    RelayActions <- HoldAndDrop
    Facts <- OneFact
    Added <- NoneOrMuch
    YaraDeltas <- SomeYara
    MaxCallbacks = 1
    UserFolders <- InboxOnly
    Faults <- RetryFaults
    MaxFaults = 2
INVARIANT SentOnce
PROPERTY Settles
CHECK_DEADLOCK FALSE
