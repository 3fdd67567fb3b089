CONSTANTS
    c1 = c1
    k1 = k1
    k2 = k2
    None = None
    Chars <- MCChars
    Kinds <- MCKinds
    Clicks <- MCClicks
    MaxGen = 2
    MaxCloses = 2
    MaxOps = 3
    MaxEvents = 1
SPECIFICATION Spec
SYMMETRY Symmetry
CHECK_DEADLOCK FALSE
INVARIANTS TypeOK NoTabForgotten TabsShowTheGame ShownTabExists LoopWaits
