SPECIFICATION Spec
CONSTANTS
    Instances = {i1}
    Receivers = {i1}
    Assets = {a1}
    Formats <- MCFormats
    SealedFormats <- MCSealedFormats
    Raw <- MCRaw
    Declarations <- BothDeclarations
    CatalogEntries <- SealingCatalog
    Requests = {r1}
    Collectors = {c1, c2}
    Downloads = {f1}
    MaxAttempts = 2
    Batch = 1
    PendingPerInstance = 2
    SweepBatch = 1
    MaxDeliveries = 1
INVARIANT RowsSound
PROPERTIES ServedOnlyWhenAllowed HandedOnlyWhenAllowed
SYMMETRY Symmetry
