SPECIFICATION Spec
CONSTANTS
    Users = {u1, u2}
    Requests = {r1}
    Calls = {c1, c2}
    MaxTokens = 3
INVARIANTS LinkSound SpentOnce CarefulIsKept
PROPERTY RevokedIsOver
SYMMETRY Symmetry
CHECK_DEADLOCK FALSE
