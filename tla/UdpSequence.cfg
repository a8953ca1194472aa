SPECIFICATION Spec
CONSTANTS
    Player = {p1, p2}
    SeqMax = 6
    MaxSent = 8
    MaxInFlight = 3
    Window = 1
    MaxLost = 2
    Duplicates = {TRUE, FALSE}
INVARIANTS
    TypeOK
    NeverTwiceInARow
PROPERTIES
    SuccessorAccepted
    LaterOrWrapped
CHECK_DEADLOCK FALSE
