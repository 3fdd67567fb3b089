SPECIFICATION Spec
CONSTANTS
    c1 = c1
    c2 = c2
    s1 = s1
    s2 = s2
    s3 = s3
    w1 = w1
    w2 = w2
    w3 = w3
    Null = Null
    Chars <- MCChars2
    Sids <- MCSids
    Conns <- MCConns
    Faults = {}
    Overlap = TRUE
PROPERTIES
    NotReapedWhileClaimed
CHECK_DEADLOCK FALSE
