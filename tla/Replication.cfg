SPECIFICATION Spec
CONSTANTS
    Players = 2
    Message <- PlayersMessages
    Value = {0, 1}
    MaxWrites = 1
    MaxMoves = 2
    MaxRounds = 2
INVARIANTS TypeOK AgreeOrSwapped SelectionIsShown NothingStale
PROPERTIES OwnersDecide
CHECK_DEADLOCK FALSE
