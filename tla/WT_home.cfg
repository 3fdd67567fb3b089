CONSTANTS
    l1 = l1
    l2 = l2
    l3 = l3
    Null = Null
    Legs <- MCLegs
    MaxLines = 2
    Faults <- AllFaults
SPECIFICATION Spec
CHECK_DEADLOCK FALSE
INVARIANTS HomeFollows
