SPECIFICATION Spec
CONSTANTS
    Players = 2
    Message <- OneMessage
    Value = {0, 1, 2}
    MaxWrites = 2
    MaxMoves = 0
    MaxRounds = 1
INVARIANTS PlayersAgree
CHECK_DEADLOCK FALSE
