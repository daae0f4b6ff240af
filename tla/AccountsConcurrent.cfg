SPECIFICATION Spec
CONSTANTS
    A = A
    a = a
    b = b
    c = c
    Raw <- PlainRaw
    Lower <- PlainLower
    Users = {u1, u2}
    NoUser = NoUser
    Procs = {p1, p2}
    Payloads <- Few
    Interrupts = TRUE
    ReadsFail = TRUE
    MaxRequests = 4
SYMMETRY Symmetric
INVARIANTS
    TypeOK
    MappingsReferToUsers
    MappedIsListed
