SPECIFICATION Spec
CONSTANTS
    Phones = {"p1", "p2"}
    First = "p1"
    Requests <- MCRequests
    NvsFails = TRUE
    MaxDay = 1
    MaxInvites = 1
INVARIANTS
    TypeOK
    CachedWasGranted
    SessionsAreCached
    InvitesShrink
PROPERTIES
    OnTheirDay
