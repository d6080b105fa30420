SPECIFICATION LifecycleSpec
CONSTANTS
    BasePayout = 1
    U64Max = 7
    ExpiryHeight = 2
    MaxBlocks = 5
    MaxQty = 3
INVARIANTS ContractTypeOK Solvent NodeTracksChain ExactInterpretation PlansAreAccepted ReplayAcceptsOnlyHistory CreationsAgree
PROPERTY ContractSpec
CHECK_DEADLOCK FALSE
