SPECIFICATION Spec
CONSTANTS
    A = A
    a = a
    b = b
    c = c
    Raw <- PlainRaw
    Lower <- PlainLower
    Users = {u1, u2}
    NoUser = NoUser
    Procs = {p1, p2}
    Payloads <- Few
    Interrupts = FALSE
    ReadsFail = FALSE
    MaxRequests = 2
INVARIANTS
    OneUserPerAccount
