SPECIFICATION Spec
CONSTANTS
    Files <- MCFiles
    OldRows <- MCOldRows
    Builds <- MCBuilds
    Edits <- MCEdits
    Headers <- MCHeaders
    MaxEdits = 2
    SourceKeys = {"k1", "k2"}
    Placeholder <- MCPlaceholder
INVARIANTS LossReportHolds ExportReadsBack LeftoversTravel SealedStaysOut ImportsFindAPlace
