\* Clicks, frames, worker and server, with at most one disturbance.
SPECIFICATION FairSpec
CONSTANTS
    Fields <- MCFields
    Steps <- MCSteps
    MaxWalks = 2
    Disturbances = 1
    PassLimit = 2
    SlowLink = TRUE
INVARIANTS
    TypeOK
    ReportsAreTrue
    LedgerBalances
    ReportsInOrder
    ViewCatchesUp
PROPERTIES
    WalksAreSettled
