CHECK_DEADLOCK FALSE
SPECIFICATION FairSpec
CONSTANTS
    s1 = s1
    w1 = w1
    w2 = w2
    b1 = b1
    Sessions = {s1}
    Workers = {w1, w2}
    Bots = {b1}
    Pieces = 2
    MaxSends = 2
INVARIANTS
    SendEventSafe
    IoAccounted
PROPERTIES
    NoSendAfterLoss
    WorkEnds
