\* Undisturbed, several answers read before the view is compared.
SPECIFICATION Spec
CONSTANTS
    Fields <- MCFields
    Steps <- MCSteps
    MaxWalks = 2
    Disturbances = 0
    PassLimit = 8
    SlowLink = FALSE
INVARIANTS
    RefusalNamesItsRequest
