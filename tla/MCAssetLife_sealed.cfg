CONSTANTS
    t1 = t1
    Tabs = {t1}
    Texts = {"a"}
    Files <- MCFiles1
    MaxEdits = 3
    MaxRevisions = 0
    MaxDeploys = 0
SPECIFICATION Spec
INVARIANT SealedTextKept
CHECK_DEADLOCK FALSE
