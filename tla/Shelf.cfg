SPECIFICATION ShelfSpec
CONSTANTS
    Batches = {1, 2, 3}
    Dates = {1, 2}
    MaxPieces = 2
INVARIANTS
    MatchesReference
CHECK_DEADLOCK FALSE
