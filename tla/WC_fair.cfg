CONSTANTS
    k1 = k1
    k2 = k2
    k3 = k3
    r1 = r1
    n1 = n1
    ta = ta
    tb = tb
    Null = Null
    Socks <- MCSocks
    Msgs <- MCMsgs
    Reqs <- MCReqs
    Tokens <- MCTokens
    Stale <- MCStale
SPECIFICATION FairSpec
CHECK_DEADLOCK FALSE
INVARIANTS TypeOK AuthFirst PendingIsAnswerable
PROPERTIES KeepsOrder Reconnects GateOpens
