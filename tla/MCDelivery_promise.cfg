SPECIFICATION Spec
CONSTANTS
    Instances = {i1}
    Receivers = {i1}
    Assets = {a1}
    Formats <- MCFormats
    SealedFormats <- MCSealedFormats
    Raw <- MCRaw
    Declarations <- NoDeclaration
    CatalogEntries <- WithdrawCatalog
    Requests = {r1, r2}
    Collectors = {c1}
    Downloads = {}
    MaxAttempts = 2
    Batch = 1
    PendingPerInstance = 2
    SweepBatch = 1
    MaxDeliveries = 2
INVARIANT SentOnce
PROPERTIES KeepsPromise EveryDeliveryLeaves
