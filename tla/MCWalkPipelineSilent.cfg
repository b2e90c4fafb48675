\* One displacement that makes the server give a walk up in silence.
SPECIFICATION Spec
CONSTANTS
    Fields <- MCFields
    Steps <- MCSteps
    MaxWalks = 2
    Disturbances = 1
    PassLimit = 1
    SlowLink = FALSE
INVARIANTS
    SilenceClaimsNothing
