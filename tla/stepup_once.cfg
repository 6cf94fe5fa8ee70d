SPECIFICATION Spec
CONSTANTS
    c1 = c1
    v1 = v1
    v2 = v2
    s1 = s1
    s2 = s2
    p1 = p1
    p2 = p2
    b1 = b1
    None = None
    Ceremony <- OneCeremony
    Verify <- TwoVerifies
    Send <- TwoSends
    Payload <- TwoPayloads
    Box <- OneBox
    Kinds <- ThreeKinds
    Tiers <- TwoTiers
    HourLimit = 1
    DayLimit = 1
    DayHours = 2
    MaxHour = 1
    Faults <- Trouble
    MaxFaults = 1
SYMMETRY Symmetry
INVARIANTS TypeOK RiskyConfirmed ConfirmedOnce RecordedInOrder
PROPERTIES ImplementsConfirmation LimitKept
CHECK_DEADLOCK FALSE
