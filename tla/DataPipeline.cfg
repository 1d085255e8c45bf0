SPECIFICATION FairSpec
CONSTANTS
    Corpora <- MCCorpora
    Setups <- MCSetups
    MaxBatches = 4
    MaxCrashes = 2
INVARIANTS
    TypeOK
    DeliversReference
    EndIsComplete
    SavedStateAccepted
PROPERTIES
    EveryRequestAnswered
CHECK_DEADLOCK FALSE
