CONSTANTS
    MaxFrames = 4
    LostMax = 2
SPECIFICATION Spec
INVARIANTS
    TypeOK
    CheckNeverForgotten
    PackNeverForgotten
    NoReplay
PROPERTIES
    DeliversAlone
