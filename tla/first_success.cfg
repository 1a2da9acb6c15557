CONSTANTS
    p = p
    b1 = b1
    b2 = b2
    Primary = p
    Backups = {b1}
    Mode = "first_success"
    ChainOf <- MC_ChainOf
    MaxVersion = 2
    Ts <- MC_Ts
    ExpirationSecs = 1
    Rival = FALSE
    Shared = FALSE
    MaxRetries = 2
    MaxPolls = 2
SPECIFICATION Spec
INVARIANTS
    NoFalseExpiry
PROPERTIES
    ReadsRefinement
    WaitReturns
