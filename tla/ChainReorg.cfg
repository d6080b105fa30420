CONSTANTS
    Contracts = {"m", "n"}
    Txs <- ForkTxs
    Blocks <- ForkBlocks
    Activation = "a0"
    Parent <- ForkParent
    Height <- ForkHeight
    Body <- ForkBody
    Creates <- ForkCreates
    Spends <- ForkSpends
    Hinted = {"m"}
    UndoRetention = 2
    Null = Null
    Moves <- ForkMoves
    MaxMoves = 2
    MaxBranchRestarts = 1
    MaxFailures = 0
SPECIFICATION Spec
INVARIANTS TypeOK ReadyIsReplayed WatchedAreIndexed NoFault EvidenceIsCanonical
PROPERTIES CursorsAreNotReused
