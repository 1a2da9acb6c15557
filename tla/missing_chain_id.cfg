CONSTANTS
    Chain = 2
    MaxVersion = 2
INIT Init
NEXT Next
INVARIANT NoFalseChainMismatch
