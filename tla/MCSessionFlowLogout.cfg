\* Exit while the link is being lost or the connect is failing.
SPECIFICATION Spec
CONSTANTS
    Accounts = {file, a1}
    RuntimeAccount = file
    Nobody = nobody
    MaxReconnectAttempts = 3
    AutoLogin = FALSE
    ControllerTicksFirst = TRUE
    ThreadMayFail = FALSE
PROPERTIES
    LogoutIsFinal
