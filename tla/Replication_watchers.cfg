SPECIFICATION Spec
CONSTANTS
    Players = 3
    Message <- WatchedMessages
    Value = {0, 1, 2}
    MaxWrites = 2
    MaxMoves = 1
    MaxRounds = 1
INVARIANTS WatchersFollow AgreeOrSwapped
PROPERTIES OwnersDecide Settles
CHECK_DEADLOCK FALSE
