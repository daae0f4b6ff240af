SPECIFICATION PriceFairSpec
CONSTANTS
    c1 = c1
    c2 = c2
    c3 = c3
    solver = solver
    job = job
    Callers = {c1, c2, c3}
    Processes = {solver, job}
    Home <- MCHome
    Nobody = Nobody
    Tokens = {t1}
    Expiry = 2
    Delay = 1
    Fails = TRUE
    MaxTime = 6
INVARIANTS
    Fresh
PROPERTIES
    NoStampede
    Answered
