CONSTANTS
    p = p
    b1 = b1
    b2 = b2
    Primary = p
    Backups = {}
    Mode = "direct"
    ChainOf <- MC_ChainOf
    MaxVersion = 3
    Ts <- MC_Ts
    ExpirationSecs = 1
    Rival = FALSE
    Shared = TRUE
    MaxRetries = 0
    MaxPolls = 3
SPECIFICATION Spec
INVARIANT
    NoFalseExpiry
