SPECIFICATION FairSpec
CONSTANTS
    t1 = t1
    t2 = t2
    Tick <- OneTick
    MaxMail = 3
    KeyOf <- Resent
    BatchCap = 2
    PageCap = 3
    Modes <- ActiveMode
    Faults <- BrokenCalls
    MaxFaults = 2
PROPERTIES BacklogDrains
CHECK_DEADLOCK FALSE
