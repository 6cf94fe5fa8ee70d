SPECIFICATION Spec
CONSTANTS
    t1 = t1
    t2 = t2
    Tick <- TwoTicks
    MaxMail = 3
    KeyOf <- Resent
    BatchCap = 1
    PageCap = 2
    Modes <- BothModes
    Faults <- AllFaults
    MaxFaults = 1
SYMMETRY Ticks
INVARIANTS TypeOK NothingSkipped IngestedOnce Audited PendingShown
PROPERTIES CursorAdvances
CHECK_DEADLOCK FALSE
