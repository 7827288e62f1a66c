CONSTANTS
    GroupSize = 8
    MaxEntries = 20
    EntryLen = 28
    FrameLen = 26
    IndexMod = 256
SPECIFICATION ReportSpec
INVARIANTS
    EverythingSent
