\* The automation path with a controller that ticks first, and threads that
\* may fail to start.
SPECIFICATION Spec
CONSTANTS
    Accounts = {file, a1}
    RuntimeAccount = file
    Nobody = nobody
    MaxReconnectAttempts = 3
    AutoLogin = TRUE
    ControllerTicksFirst = TRUE
    ThreadMayFail = TRUE
INVARIANTS
    IInv
PROPERTIES
    AutoEnterOncePerList
