SPECIFICATION Spec
CONSTANTS
    Instances = {i1}
    Receivers = {i1}
    Assets = {a1, a2, a3}
    Formats <- MCFormats
    SealedFormats <- MCSealedFormats
    Raw <- MCRaw
    Declarations <- BothDeclarations
    CatalogEntries <- SteadyCatalog
    Requests = {r1, r2}
    Collectors = {}
    Downloads = {}
    MaxAttempts = 2
    Batch = 1
    PendingPerInstance = 1
    SweepBatch = 1
    MaxDeliveries = 3
INVARIANT OvershootBounded
SYMMETRY Symmetry
