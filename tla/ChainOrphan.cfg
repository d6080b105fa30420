CONSTANTS
    Contracts = {"n"}
    Txs <- SplitTxs
    Blocks <- SplitBlocks
    Activation = "a0"
    Parent <- SplitParent
    Height <- SplitHeight
    Body <- SplitBody
    Creates <- SplitCreates
    Spends <- SplitSpends
    Hinted = {}
    UndoRetention = 2
    Null = Null
    Moves <- SplitMoves
    MaxMoves = 2
    MaxBranchRestarts = 1
    MaxFailures = 0
SPECIFICATION Spec
INVARIANTS NoOrphanedState
