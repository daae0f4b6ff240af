SPECIFICATION FairSpec
CONSTANTS
    Solvers = {s1}
    Jobs = {j1, j2}
    Tasks = {boot, t1}
    Boot = boot
    Buckets = {b1, b2}
    Prices = {p1}
    BatchSize = 1
    MaxVersion = 2
INVARIANTS
    TypeOK
    StalenessExplained
    NeverOlderThanBoot
PROPERTIES
    Settles
