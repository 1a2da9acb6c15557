CONSTANTS
    x1 = x1
    x2 = x2
    x3 = x3
    nil = nil
    Addrs = {x1, x2, x3}
    NoAddr = nil
    RecursionLimit = 3
SPECIFICATION Spec
INVARIANT
    HelperErrorsDocumented
