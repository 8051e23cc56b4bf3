SPECIFICATION FairSpec
CONSTANTS
    b1 = b1
    b2 = b2
    b3 = b3
    Operations = {o1, o2}
    Workers = {w1, w2}
    Blobs = {b1, b2, b3}
    Pictures = {b3}
    Extracts <- MCExtracts
    Cap = 2
    MaxAttempts = 2
    Faults = 1
INVARIANTS IngestSound OneWriter WithinCap
PROPERTIES OutcomeFinal EveryUploadSettles
