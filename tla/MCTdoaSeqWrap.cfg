CONSTANTS
    c1 = c1
    c2 = c2
    c3 = c3
    t1 = t1
    StdCards = {c1}
    TestCards = {t1}
    NSlots = 2
    MaxMsgs = 2
    TickMax = 9
    SeqMod = 4
    Period = 4
    MaxNow = 14
    Start = 6
    MaxEpoch = 0
SPECIFICATION Spec
PROPERTIES
    ConsecutivePollsPaired
