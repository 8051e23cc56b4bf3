SPECIFICATION Spec
CONSTANTS
    Users = {u1, u2}
    Emails = {e1, e2}
    Handles <- MCHandles
    Candidates <- MCCandidates
    Subjects = {1}
    Requests = {r1, r2}
    Flows = {f1}
    MaxMails = 2
    Faults = 0
    None = None
INVARIANTS AddressesSound HandlesNeverReused
PROPERTIES WayBackKept CreatorAddressKept
SYMMETRY Symmetry
