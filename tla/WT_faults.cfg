CONSTANTS
    l1 = l1
    l2 = l2
    l3 = l3
    Null = Null
    Legs <- MCLegs
    MaxLines = 2
    Faults <- AllFaults
SPECIFICATION FairSpec
CHECK_DEADLOCK FALSE
INVARIANTS TypeOK OneWorld LegsClosed AtHome ReservationsUsed
PROPERTIES StartReported
