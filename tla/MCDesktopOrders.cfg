SPECIFICATION FairSpec
CONSTANTS
    Keypairs = {k1}
    Orders = {o1, o2}
    Tasks = {t1, t2}
    MaxPolls <- MCPolls
INVARIANTS
    TypeOK
    OneRequestAtATime
PROPERTIES
    KeepsPromisesIfExecuted
    BusyEnds
