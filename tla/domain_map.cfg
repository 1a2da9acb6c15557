CONSTANTS
    d1 = d1
    d2 = d2
    a1 = a1
    Domains = {d1, d2}
    Addresses = {a1}
    BatchSize = 2
    MaxVersion = 4
    MaxRetries = 2
    Chain = 2
    Shared = TRUE
SPECIFICATION Spec
INVARIANTS
    DomainMapConsistent
PROPERTIES
    DomainMapReturns
