SPECIFICATION Spec
CONSTANTS
    A = A
    a = a
    b = b
    c = c
    Raw <- MCRaw
    Lower <- MCLower
    Users = {u1, u2, u3}
    NoUser = NoUser
    Procs = {p1}
    Payloads <- Repeating
    Interrupts = TRUE
    ReadsFail = FALSE
    MaxRequests = 4
INVARIANTS
    OneUserPerAccount
    LookupComplete
PROPERTIES
    Refinement
