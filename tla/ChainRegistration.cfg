CONSTANTS
    Contracts = {"n"}
    Txs <- RaceTxs
    Blocks <- RaceBlocks
    Activation = "a0"
    Parent <- RaceParent
    Height <- RaceHeight
    Body <- RaceBody
    Creates <- RaceCreates
    Spends <- RaceSpends
    Hinted = {}
    UndoRetention = 2
    Null = Null
    Moves <- RaceMoves
    MaxMoves = 3
    MaxBranchRestarts = 1
    MaxFailures = 1
SPECIFICATION Spec
INVARIANTS ReadyIsReplayed
PROPERTIES Settles
