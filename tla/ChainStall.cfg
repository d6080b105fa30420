CONSTANTS
    Contracts = {"n"}
    Txs <- RaceTxs
    Blocks <- RaceBlocks
    Activation = "a0"
    Parent <- RaceParent
    Height <- RaceHeight
    Body <- RaceBody
    Creates <- RaceCreates
    Spends <- RaceSpends
    Hinted = {}
    UndoRetention = 2
    Null = Null
    Moves <- RaceFallsBack
    MaxMoves = 2
    MaxBranchRestarts = 1
    MaxFailures = 0
SPECIFICATION Spec
PROPERTIES CaughtUpBecomesReady
