CONSTANTS
    c1 = c1
    c2 = c2
    c3 = c3
    t1 = t1
    StdCards = {c1, c2, c3}
    TestCards = {t1}
    NSlots = 2
    MaxMsgs = 2
    TickMax = 9
    SeqMod = 4
    Period = 4
    MaxNow = 15
    Start = 6
    MaxEpoch = 1
SPECIFICATION Spec
INVARIANTS
    OneSlotPerCard
    EntriesFollowPre
    ReportBracketed
    ReportAccurate
SYMMETRY Symmetry
