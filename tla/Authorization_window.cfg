SPECIFICATION Spec
CONSTANTS
    Phones = {"p1", "p2"}
    First = "p1"
    Requests <- MCStays
    NvsFails = FALSE
    MaxDay = 1
    MaxInvites = 1
PROPERTIES
    TenantsGetIn
