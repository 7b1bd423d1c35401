SPECIFICATION FairSpec
CONSTANTS
    Slots = {Str0, Str1}
    Passwords = {hunter2, swordfish}
    Orders = {o1, o2}
    MaxAttempts <- MCAttempts
INVARIANTS
    TypeOK
    SecretsErased
PROPERTIES
    KeepsPromises
    NetworkPhaseEnds
