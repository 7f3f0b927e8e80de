SPECIFICATION Spec
CONSTANTS
    Output <- TwoAttempts
    Secret <- TwoBytes
    NUL = 0
    Byte = {0, 1, 2, 3, 4, 5}
    Slot = {1}
    Idle = Idle
    Unread = Unread
    Split = FALSE
    MaxFaults = 3
INVARIANTS
    AckedIsStored
PROPERTIES
    GrowsOnly
CHECK_DEADLOCK FALSE
