\* A retry whose worker thread cannot be created.
SPECIFICATION Spec
CONSTANTS
    Accounts = {file, a1}
    RuntimeAccount = file
    Nobody = nobody
    MaxReconnectAttempts = 3
    AutoLogin = FALSE
    ControllerTicksFirst = TRUE
    ThreadMayFail = TRUE
INVARIANTS
    ReconnectingComesBack
