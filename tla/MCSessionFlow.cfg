\* The player's client: every interleaving of clicks, frames and worker.
SPECIFICATION FairSpec
CONSTANTS
    Accounts = {file, a1, a2}
    RuntimeAccount = file
    Nobody = nobody
    MaxReconnectAttempts = 3
    AutoLogin = FALSE
    ControllerTicksFirst = FALSE
    ThreadMayFail = FALSE
INVARIANTS
    ReapCutsNothingShort
    NothingCarriedOver
    WaitsForSomeone
    ReconnectingComesBack
    ListBelongsToCredentials
    NoGhosts
PROPERTIES
    RetryOnlyAfterLoss
    NoEndlessWait
