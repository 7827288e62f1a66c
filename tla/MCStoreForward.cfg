CONSTANTS
    MqSize = 2
    MaxPackets = 4
    Nothing = Nothing
    Junk = Junk
    Status = Status
SPECIFICATION Spec
INVARIANTS
    OnePlace
    OrderKept
PROPERTY
    StoreDrains
