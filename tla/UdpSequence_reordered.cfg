SPECIFICATION Spec
CONSTANTS
    Player = {p1}
    SeqMax = 6
    MaxSent = 5
    MaxInFlight = 3
    Window = 3
    MaxLost = 0
    Duplicates = {FALSE}
PROPERTIES
    NeverOlder
CHECK_DEADLOCK FALSE
