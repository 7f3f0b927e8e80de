SPECIFICATION Spec
CONSTANTS
    c1 = c1
    c2 = c2
    TrackerCall = {c1, c2}
    NoRow = NoRow
    MaxNumber = 2
    MaxCount = 2
    Branch = {1}
    Level = {30, 40}
    Rule <- AnyRule
    Pusher = {c1, c2}
    Commands <- OneCommand
    MaxPush = 2
    MaxCommit = 3
    MaxRow = 2
    NoPush = NoPush
INVARIANTS
    NumbersAreFresh
    CountIsOpen
PROPERTIES
    AcceptedIsInBase
    ProtectedIsKept
SYMMETRY Symmetry
CHECK_DEADLOCK FALSE
