CONSTANTS
    t1 = t1
    t2 = t2
    Tabs = {t1, t2}
    Texts = {"a", "b"}
    Files <- MCFiles
    MaxEdits = 4
    MaxRevisions = 1
    MaxDeploys = 1
SPECIFICATION Spec
SYMMETRY TabSymmetry
INVARIANTS SealedIsHeld ProjectionsFollowPage
PROPERTIES BlocksKept GenerationFollowsDownload FrozenIsKept
CHECK_DEADLOCK FALSE
